---- MODULE Spec2Model ----
(***************************************************************************)
(* Model of the two Sierpinski ray-marching demos:                         *)
(*   src/sierpinski.c           (the "simple" variant)                     *)
(*   src/sierpinski_enhanced.c  (the "enhanced" variant)                   *)
(*                                                                         *)
(* Two state machines are modelled.                                        *)
(*   - The frame driver: the render loop of main() in either variant, with *)
(*     its event polling, its event dispatch and the phases of one frame.  *)
(*   - The ray marcher: the loop of the GLSL function rayMarch of either   *)
(*     variant, one iteration per step.                                    *)
(***************************************************************************)
EXTENDS Integers, Sequences, FiniteSets, TLC

(***************************************************************************)
(* Single-precision floats of the driver.                                  *)
(*                                                                         *)
(* Every float the driver holds (cameraOffsetX, cameraOffsetY,             *)
(* cameraDistance) is a sum of the literals 0.1f, 0.2f, 2.0f, 4.5f, 10.0f, *)
(* so it is an integer multiple of 2^-27.  A float x is modelled by the    *)
(* integer x * 2^27, and an addition rounds its exact result to the 24-bit *)
(* significand of IEEE-754 binary32, ties to even, as the hardware does.   *)
(***************************************************************************)
F32Unit == 2^27

F32Significand == 2^24

Abs(n) == IF n < 0 THEN -n ELSE n

\* The spacing of binary32 values at magnitude a, in units of 2^-27.
RECURSIVE F32Quantum(_)
F32Quantum(a) == IF a < F32Significand THEN 1 ELSE 2 * F32Quantum(a \div 2)

\* num/den (units of 2^-27 already applied to num) rounded to nearest, ties to even.
F32RoundRatio(num, den) ==
    LET a == Abs(num)
        q == den * F32Quantum(a \div den)
        m == a \div q
        r == a % q
        up == (2 * r > q) \/ (2 * r = q /\ m % 2 = 1)
        mag == (IF up THEN m + 1 ELSE m) * (q \div den)
    IN  IF num < 0 THEN -mag ELSE mag

\* The binary32 value nearest to the exact integer n (units of 2^-27).
F32Round(n) == F32RoundRatio(n, 1)

\* A decimal literal num/den with the suffix f.
F32Lit(num, den) == F32RoundRatio(num * F32Unit, den)

\* x + y and x - y in binary32.
F32Add(x, y) == F32Round(x + y)

F32Sub(x, y) == F32Round(x - y)

(***************************************************************************)
(* The frame driver: main() of either variant from the first test of the   *)
(* render loop on.                                                         *)
(***************************************************************************)
VARIABLES
    variant,         \* which program runs: "simple" or "enhanced"
    pc,              \* the driver's position in main()
    running,         \* bool running
    event,           \* SDL_Event event, as filled by SDL_PollEvent
    colorPalette,    \* int colorPalette            (enhanced)
    cameraOffsetX,   \* float cameraOffsetX         (enhanced)
    cameraOffsetY,   \* float cameraOffsetY         (enhanced)
    cameraDistance,  \* float cameraDistance        (enhanced)
    windowWidth,     \* int windowWidth  (enhanced) / the window's width (simple)
    windowHeight,    \* int windowHeight (enhanced) / the window's height (simple)
    viewport,        \* the GL viewport, <<width, height>>
    camera,          \* the frame's locals time, camX, camY, camZ
    uniforms,        \* the uniform values uploaded for the frame in flight
    exitStatus,      \* the value main() returned, -1 while it runs
    quitFrames,      \* history: frames begun and swapped since running became false
    paletteLog,      \* history: colorPalette before each of the last SPACE events
    last,            \* history: the event just handled and the state it met
    zoomRun          \* history: the zoom events in a row since distance 4.5 / 2.0

driverVars == <<variant, pc, running, event, colorPalette, cameraOffsetX,
                cameraOffsetY, cameraDistance, windowWidth, windowHeight,
                viewport, camera, uniforms, exitStatus>>

historyVars == <<quitFrames, paletteLog, last, zoomRun>>

Variants == {"simple", "enhanced"}

\* ---- bounds of the model ----

\* Arrow keys are explored while |offsetX| + |offsetY| stays within this many steps.
MaxOffsetSteps == 1

\* SDL_GetTicks / SDL_GetPerformanceCounter readings are drawn from 0..MaxTime.
MaxTime == 1

\* The liveness specification explores zoom keys while the distance stays within
\* this many steps of 4.5.
MaxZoomSteps == 1

\* Zoom events in a row that the history counts (one more is "any further").
ZoomRunLen == 100

\* Sizes a resize event may carry.
ResizeSizes == {<<800, 600>>}

\* ---- program constants ----

PaletteCount == 4

InitialDistance == F32Lit(9, 2)

MinDistance == F32Lit(2, 1)

MaxDistance == F32Lit(10, 1)

ZoomStep == F32Lit(1, 5)

OffsetStep == F32Lit(1, 10)

\* ---- events ----

\* The key symbols with a case in the enhanced switch, and "a" for any other key.
KeySyms == {"ESCAPE", "q", "SPACE", "UP", "DOWN", "LEFT", "RIGHT",
            "PLUS", "EQUALS", "MINUS", "r", "a"}

NoEvent == [type |-> "none", sym |-> "none", data1 |-> 0, data2 |-> 0]

QuitEvent == [type |-> "SDL_QUIT", sym |-> "none", data1 |-> 0, data2 |-> 0]

KeyDownEvent(k) == [type |-> "SDL_KEYDOWN", sym |-> k, data1 |-> 0, data2 |-> 0]

ResizedEvent(w, h) == [type |-> "SDL_WINDOWEVENT_RESIZED", sym |-> "none",
                       data1 |-> w, data2 |-> h]

\* Any event neither variant looks at: a key release, mouse motion, ...
OtherEvent == [type |-> "other", sym |-> "none", data1 |-> 0, data2 |-> 0]

Events == {QuitEvent, OtherEvent}
          \cup {KeyDownEvent(k) : k \in KeySyms}
          \cup {ResizedEvent(s[1], s[2]) : s \in ResizeSizes}

\* ---- the effect of each case of the switch on its field ----

\* Mutant of NextPalette: the increment without the modulus.
NextPaletteNoWrap(p) == p + 1

\* Mutant of NextPalette: the palette advances by two.
NextPaletteSkip(p) == (p + 2) % PaletteCount

NextPalette(p) == (p + 1) % PaletteCount

\* Mutant of ZoomIn: the lower clamp is missing.
ZoomInNoClamp(d) == F32Sub(d, ZoomStep)

ZoomIn(d) ==
    LET n == F32Sub(d, ZoomStep)
    IN  IF n < MinDistance THEN MinDistance ELSE n

\* Mutant of ZoomOut: the upper clamp assigns the lower limit.
ZoomOutWrongLimit(d) ==
    LET n == F32Add(d, ZoomStep)
    IN  IF n > MaxDistance THEN MinDistance ELSE n

ZoomOut(d) ==
    LET n == F32Add(d, ZoomStep)
    IN  IF n > MaxDistance THEN MaxDistance ELSE n

\* Mutant of OffsetUp: the zoom step is added instead of the offset step.
OffsetUpWrongStep(o) == F32Add(o, ZoomStep)

OffsetUp(o) == F32Add(o, OffsetStep)

OffsetDown(o) == F32Sub(o, OffsetStep)

\* ---- event dispatch ----

\* The variables an event handler may write, as one record.
AppState == [running        |-> running,
             colorPalette   |-> colorPalette,
             cameraOffsetX  |-> cameraOffsetX,
             cameraOffsetY  |-> cameraOffsetY,
             cameraDistance |-> cameraDistance,
             windowWidth    |-> windowWidth,
             windowHeight   |-> windowHeight,
             viewport       |-> viewport]

\* Mutant of ResetCamera: the distance is not reset.
ResetCameraKeepsZoom(s) ==
    [s EXCEPT !.cameraOffsetX = F32Lit(0, 1), !.cameraOffsetY = F32Lit(0, 1)]

\* case SDLK_r.
ResetCamera(s) ==
    [s EXCEPT !.cameraOffsetX = F32Lit(0, 1),
              !.cameraOffsetY = F32Lit(0, 1),
              !.cameraDistance = InitialDistance]

\* switch (event.key.keysym.sym) of the enhanced variant.
KeyDownEnhanced(sym, s) ==
    CASE sym \in {"ESCAPE", "q"}   -> [s EXCEPT !.running = FALSE]
      [] sym = "SPACE"             -> [s EXCEPT !.colorPalette = NextPalette(@)]
      [] sym = "UP"                -> [s EXCEPT !.cameraOffsetY = OffsetUp(@)]
      [] sym = "DOWN"              -> [s EXCEPT !.cameraOffsetY = OffsetDown(@)]
      [] sym = "LEFT"              -> [s EXCEPT !.cameraOffsetX = OffsetDown(@)]
      [] sym = "RIGHT"             -> [s EXCEPT !.cameraOffsetX = OffsetUp(@)]
      [] sym \in {"PLUS", "EQUALS"} -> [s EXCEPT !.cameraDistance = ZoomIn(@)]
      [] sym = "MINUS"             -> [s EXCEPT !.cameraDistance = ZoomOut(@)]
      [] sym = "r"                 -> ResetCamera(s)
      [] OTHER                     -> s

\* The body of while (SDL_PollEvent(&event)) of the enhanced variant.
DispatchEnhanced(e, s) ==
    IF e.type = "SDL_QUIT" THEN [s EXCEPT !.running = FALSE]
    ELSE IF e.type = "SDL_KEYDOWN" THEN KeyDownEnhanced(e.sym, s)
    ELSE IF e.type = "SDL_WINDOWEVENT_RESIZED"
         THEN [s EXCEPT !.windowWidth = e.data1,
                        !.windowHeight = e.data2,
                        !.viewport = <<e.data1, e.data2>>]
    ELSE s

\* The body of while (SDL_PollEvent(&event)) of the simple variant.
DispatchSimple(e, s) ==
    IF e.type = "SDL_QUIT" THEN [s EXCEPT !.running = FALSE]
    ELSE IF e.type = "SDL_KEYDOWN" /\ e.sym = "ESCAPE" THEN [s EXCEPT !.running = FALSE]
    ELSE s

\* The model explores an arrow key only while the offsets stay within MaxOffsetSteps.
WithinOffsetBound(s) ==
    Abs(s.cameraOffsetX) + Abs(s.cameraOffsetY)
        <= MaxOffsetSteps * OffsetStep + OffsetStep \div 2

WithinZoomBound(s) ==
    Abs(s.cameraDistance - InitialDistance) <= MaxZoomSteps * ZoomStep + ZoomStep \div 2

StoreAppState(s) ==
    /\ running' = s.running
    /\ colorPalette' = s.colorPalette
    /\ cameraOffsetX' = s.cameraOffsetX
    /\ cameraOffsetY' = s.cameraOffsetY
    /\ cameraDistance' = s.cameraDistance
    /\ windowWidth' = s.windowWidth
    /\ windowHeight' = s.windowHeight
    /\ viewport' = s.viewport

\* SDL_PollEvent(&event) returns 1: the next pending event, one of the set E, is
\* copied into event.
PollFrom(E) ==
    /\ pc = "poll"
    /\ \E e \in E :
          /\ variant = "enhanced" => WithinOffsetBound(DispatchEnhanced(e, AppState))
          /\ event' = e
    /\ pc' = "dispatch"
    /\ UNCHANGED <<variant, running, colorPalette, cameraOffsetX, cameraOffsetY,
                   cameraDistance, windowWidth, windowHeight, viewport, camera,
                   uniforms, exitStatus>>

PollEvent == PollFrom(Events)

\* SDL_PollEvent(&event) returns 0: no event is pending, the inner loop ends.
PollEmpty ==
    /\ pc = "poll"
    /\ pc' = "uniforms"
    /\ UNCHANGED <<variant, running, event, colorPalette, cameraOffsetX,
                   cameraOffsetY, cameraDistance, windowWidth, windowHeight,
                   viewport, camera, uniforms, exitStatus>>

\* One pass through the inner loop's body, enhanced variant.  The event is not
\* read again before SDL_PollEvent overwrites it.
HandleEventEnhanced ==
    /\ pc = "dispatch"
    /\ variant = "enhanced"
    /\ StoreAppState(DispatchEnhanced(event, AppState))
    /\ event' = NoEvent
    /\ pc' = "handled"
    /\ UNCHANGED <<variant, camera, uniforms, exitStatus>>

\* One pass through the inner loop's body, simple variant.
HandleEventSimple ==
    /\ pc = "dispatch"
    /\ variant = "simple"
    /\ StoreAppState(DispatchSimple(event, AppState))
    /\ event' = NoEvent
    /\ pc' = "handled"
    /\ UNCHANGED <<variant, camera, uniforms, exitStatus>>

\* The end of the inner loop's body: control returns to SDL_PollEvent.
NextEvent ==
    /\ pc = "handled"
    /\ pc' = "poll"
    /\ UNCHANGED <<variant, running, event, colorPalette, cameraOffsetX,
                   cameraOffsetY, cameraDistance, windowWidth, windowHeight,
                   viewport, camera, uniforms, exitStatus>>

\* ---- one frame ----

NoCamera == [time |-> -1]

NoUniforms == [u_time |-> -1]

\* sinf/cosf(time * k) * a + base: the float sum of a term that depends on the
\* clock alone and of a field of the driver, kept as the pair it is computed from.
Sway(tm, base) == [sway |-> tm, base |-> base]

\* Mutant of CameraEnhanced: camZ is computed from the initial distance.
CameraEnhancedFixedZoom(tm) ==
    [time |-> tm,
     rotMat |-> tm,
     camX |-> Sway(tm, cameraOffsetX),
     camY |-> Sway(tm, cameraOffsetY),
     camZ |-> Sway(tm, InitialDistance)]

\* time, rotMat, camX, camY and camZ of the enhanced variant.
CameraEnhanced(tm) ==
    [time |-> tm,
     rotMat |-> tm,
     camX |-> Sway(tm, cameraOffsetX),
     camY |-> Sway(tm, cameraOffsetY),
     camZ |-> Sway(tm, cameraDistance)]

\* time, width and height of the simple variant.
CameraSimple(tm) == [time |-> tm, width |-> windowWidth, height |-> windowHeight]

\* The five glUniform calls of the enhanced variant.
UniformsEnhanced ==
    [u_resolution   |-> <<windowWidth, windowHeight>>,
     u_time         |-> camera.time,
     u_camPos       |-> <<camera.camX, camera.camY, camera.camZ>>,
     u_rotation     |-> camera.rotMat,
     u_colorPalette |-> colorPalette]

\* The two glUniform calls of the simple variant.
UniformsSimple ==
    [u_time |-> camera.time, u_resolution |-> <<camera.width, camera.height>>]

\* The frame's locals are computed from the clock and the driver's state.
ComputeCamera ==
    /\ pc = "uniforms"
    /\ \E tm \in 0..MaxTime :
          camera' = IF variant = "enhanced" THEN CameraEnhanced(tm) ELSE CameraSimple(tm)
    /\ pc' = "upload"
    /\ UNCHANGED <<variant, running, event, colorPalette, cameraOffsetX,
                   cameraOffsetY, cameraDistance, windowWidth, windowHeight,
                   viewport, uniforms, exitStatus>>

\* glClear, glUseProgram, the glUniform calls and glDrawArrays.
UploadAndDraw ==
    /\ pc = "upload"
    /\ uniforms' = IF variant = "enhanced" THEN UniformsEnhanced ELSE UniformsSimple
    /\ viewport' = IF variant = "enhanced" THEN viewport
                   ELSE <<camera.width, camera.height>>
    /\ pc' = "swap"
    /\ UNCHANGED <<variant, running, event, colorPalette, cameraOffsetX,
                   cameraOffsetY, cameraDistance, windowWidth, windowHeight,
                   camera, exitStatus>>

\* Mutant of LoopTest: the loop never ends.
LoopTestForever(r) == "poll"

\* The position the loop's test while (running) leads to.
LoopTest(r) == IF r THEN "poll" ELSE "cleanup"

\* SDL_GL_SwapWindow ends the frame; the loop's test follows.  The frame's locals
\* go out of scope and its uniforms are not read again.
SwapWindow ==
    /\ pc = "swap"
    /\ camera' = NoCamera
    /\ uniforms' = NoUniforms
    /\ pc' = LoopTest(running)
    /\ UNCHANGED <<variant, running, event, colorPalette, cameraOffsetX,
                   cameraOffsetY, cameraDistance, windowWidth, windowHeight,
                   viewport, exitStatus>>

\* The GL objects, the context and the window are released; main returns 0.
Cleanup ==
    /\ pc = "cleanup"
    /\ pc' = "done"
    /\ exitStatus' = 0
    /\ UNCHANGED <<variant, running, event, colorPalette, cameraOffsetX,
                   cameraOffsetY, cameraDistance, windowWidth, windowHeight,
                   viewport, camera, uniforms>>

\* ---- history ----

Bump(n) == IF n < 2 THEN n + 1 ELSE n

LastN(q, n) == IF Len(q) <= n THEN q ELSE SubSeq(q, Len(q) - n + 1, Len(q))

NoRun == [dir |-> "none", n |-> 0]

\* The run of zoom events after the event e is handled.  A run of "in" events
\* starts at distance 4.5, a run of "out" events at distance 2.0; an event that
\* leaves the distance alone leaves the run alone; 'r' and the opposite zoom end it.
RunAfter(e, run, d) ==
    LET more == [run EXCEPT !.n = IF @ <= ZoomRunLen THEN @ + 1 ELSE @]
    IN  IF e.type # "SDL_KEYDOWN" THEN run
        ELSE IF e.sym \in {"PLUS", "EQUALS"}
             THEN IF run.dir = "in" THEN more
                  ELSE IF d = InitialDistance THEN [dir |-> "in", n |-> 1]
                  ELSE NoRun
        ELSE IF e.sym = "MINUS"
             THEN IF run.dir = "out" THEN more
                  ELSE IF d = MinDistance THEN [dir |-> "out", n |-> 1]
                  ELSE NoRun
        ELSE IF e.sym = "r" THEN NoRun
        ELSE run

NoLast == [event |-> NoEvent]

\* Updates the history variables along a step of the driver.
DriverHistory ==
    /\ quitFrames' =
          IF running THEN quitFrames
          ELSE [begun   |-> IF pc = "uniforms" /\ pc' = "upload"
                            THEN Bump(quitFrames.begun) ELSE quitFrames.begun,
                swapped |-> IF pc = "swap" /\ pc' # "swap"
                            THEN Bump(quitFrames.swapped) ELSE quitFrames.swapped]
    /\ paletteLog' =
          IF pc = "dispatch" /\ variant = "enhanced" /\ event = KeyDownEvent("SPACE")
          THEN LastN(Append(paletteLog, colorPalette), PaletteCount)
          ELSE paletteLog
    /\ last' = IF pc = "dispatch" THEN [event |-> event, before |-> AppState] ELSE NoLast

\* Updates the history of zoom runs along a step of the driver.
ZoomHistory ==
    zoomRun' = IF pc = "dispatch" /\ variant = "enhanced"
               THEN RunAfter(event, zoomRun, cameraDistance)
               ELSE zoomRun

\* The locals of main() at their initial values.
MainLocals ==
    /\ variant \in Variants
    /\ running = TRUE
    /\ event = NoEvent
    /\ colorPalette = 0
    /\ cameraOffsetX = F32Lit(0, 1)
    /\ cameraOffsetY = F32Lit(0, 1)
    /\ cameraDistance = InitialDistance
    /\ windowWidth = (IF variant = "enhanced" THEN 1920 ELSE 1280)
    /\ windowHeight = (IF variant = "enhanced" THEN 1080 ELSE 720)
    /\ viewport = <<windowWidth, windowHeight>>
    /\ camera = NoCamera
    /\ uniforms = NoUniforms
    /\ exitStatus = -1

\* The state when the render loop is first entered.
DriverInit == pc = "poll" /\ MainLocals

HistoryInit ==
    /\ quitFrames = [begun |-> 0, swapped |-> 0]
    /\ paletteLog = <<>>
    /\ last = NoLast
    /\ zoomRun = NoRun

(***************************************************************************)
(* The ray marcher: rayMarch of the fragment shader of either variant.     *)
(*                                                                         *)
(* Distances are fixed-point numbers with five decimals.  The distance     *)
(* estimator's value at ro + rd * t is an input of each iteration, drawn   *)
(* from DistSamples: the marcher is modelled for every sequence of samples *)
(* and so for every origin and direction.  The enhanced variant's          *)
(* orbitTrap minimum does not influence the march and is left out.         *)
(***************************************************************************)
VARIABLES
    marchPc,     \* "loop": before an iteration; "exit": after the loop; "done"
    i,           \* int i
    t,           \* float t
    steps,       \* out int steps        (simple)
    totalDist,   \* out float totalDist  (simple)
    result,      \* the value returned, meaningful once marchPc = "done"
    evals,       \* history: calls of the distance estimator
    hit          \* history: the return was the one inside the loop

marchVars == <<marchPc, i, t, steps, totalDist, result, evals, hit>>

DistUnit == 10^5

Dec(num, den) == (num * DistUnit) \div den

\* The samples the distance estimator may return.
DistSamples == {Dec(0, 1), Dec(5, 10000), Dec(2, 100), Dec(40, 1)}

SimpleMaxSteps == 256

EnhancedMaxSteps == 200

MaxSteps(v) == IF v = "simple" THEN SimpleMaxSteps ELSE EnhancedMaxSteps

MaxDist(v) == IF v = "simple" THEN Dec(20, 1) ELSE Dec(50, 1)

HitThreshold(v) == IF v = "simple" THEN Dec(1, 1000) ELSE Dec(1, 10000)

\* dist * 0.5 (simple), d * 0.6 (enhanced).
Relaxed(v, d) == IF v = "simple" THEN (d * 5) \div 10 ELSE (d * 6) \div 10

Miss == -Dec(1, 1)

\* Mutant of HitResult: both variants return the sample.
HitResultSample(v, d, tt) == d

\* The value of the return inside the loop: dist (simple), t (enhanced).
HitResult(v, d, tt) == IF v = "simple" THEN d ELSE tt

\* if (t > maxDist) break;
PastMaxDist(v, tt) == tt > MaxDist(v)

\* Mutant of InBudget: the loop's test admits one iteration more.
InBudgetOffByOne(v, n) == n <= MaxSteps(v)

\* The loop's test i < maxSteps.
InBudget(v, n) == n < MaxSteps(v)

MarchInit ==
    /\ marchPc = "loop"
    /\ i = 0
    /\ t = 0
    /\ steps = 0
    /\ totalDist = 0
    /\ result = 0
    /\ evals = 0
    /\ hit = FALSE

\* One iteration of the for loop, with the sample d.
MarchStep ==
    /\ marchPc = "loop"
    /\ \E d \in DistSamples :
          /\ evals' = evals + 1
          /\ IF d < HitThreshold(variant)
             THEN /\ totalDist' = (IF variant = "simple" THEN t ELSE totalDist)
                  /\ result' = HitResult(variant, d, t)
                  /\ hit' = TRUE
                  /\ marchPc' = "done"
                  /\ UNCHANGED <<i, t, steps>>
             ELSE /\ t' = t + Relaxed(variant, d)
                  /\ steps' = (IF variant = "simple" THEN steps + 1 ELSE steps)
                  /\ i' = i + 1
                  /\ marchPc' = IF PastMaxDist(variant, t') \/ ~InBudget(variant, i')
                                THEN "exit" ELSE "loop"
                  /\ UNCHANGED <<totalDist, result, hit>>

\* The statements after the loop: the miss.
MarchMiss ==
    /\ marchPc = "exit"
    /\ totalDist' = (IF variant = "simple" THEN t ELSE totalDist)
    /\ result' = Miss
    /\ marchPc' = "done"
    /\ UNCHANGED <<i, t, steps, evals, hit>>

(***************************************************************************)
(* The float of the shading language: IEEE-754 binary32, as the spec's     *)
(* "single precision".  A value is [m |-> significand, e |-> exponent], it *)
(* stands for m * 2^e, and it is 0 or has 2^23 <= |m| < 2^24.  Sums,       *)
(* products, quotients and square roots are rounded to nearest, ties to    *)
(* even.  Exponents are unbounded: no overflow to infinity, no subnormals. *)
(***************************************************************************)
FlZero == [m |-> 0, e |-> 0]

\* The number of bits of a, 0 <= a < 2^31.
RECURSIVE BitLen(_)
BitLen(a) ==
    IF a = 0 THEN 0
    ELSE IF a < F32Significand THEN 1 + BitLen(a \div 2)
    ELSE IF a < 2^27 THEN (IF a < 2^25 THEN 25 ELSE IF a < 2^26 THEN 26 ELSE 27)
    ELSE IF a < 2^29 THEN (IF a < 2^28 THEN 28 ELSE 29)
    ELSE IF a < 2^30 THEN 30 ELSE 31

\* m * 2^e rounded to 24 bits.  A caller that has dropped nonzero low bits has
\* set bit 0 of m and passes at least 26 bits.
FlRound(m, e) ==
    LET a == Abs(m)
        n == BitLen(a)
        s == IF m < 0 THEN -1 ELSE 1
    IN  IF a = 0 THEN FlZero
        ELSE IF n <= 24 THEN [m |-> s * a * 2^(24 - n), e |-> e - (24 - n)]
        ELSE LET k    == n - 24
                 q    == a \div 2^k
                 r    == a % 2^k
                 half == 2^(k - 1)
                 up   == r > half \/ (r = half /\ q % 2 = 1)
                 q1   == IF up THEN q + 1 ELSE q
             IN  IF q1 = F32Significand
                 THEN [m |-> s * (F32Significand \div 2), e |-> e + k + 1]
                 ELSE [m |-> s * q1, e |-> e + k]

\* An integer, and a decimal literal num/den, as floats.
FlInt(n) == FlRound(n, 0)

FlNeg(a) == [m |-> -a.m, e |-> a.e]

FlAbs(a) == [m |-> Abs(a.m), e |-> a.e]

\* a * 2^k, exact.
FlScale(a, k) == IF a.m = 0 THEN a ELSE [m |-> a.m, e |-> a.e + k]

\* q with bit 0 set when st: the dropped bits were not all zero.
Sticky(q, st) == IF st /\ q % 2 = 0 THEN q + 1 ELSE q

FlAdd(a, b) ==
    IF a.m = 0 THEN b
    ELSE IF b.m = 0 THEN a
    ELSE LET hi == IF a.e >= b.e THEN a ELSE b
             lo == IF a.e >= b.e THEN b ELSE a
             d  == hi.e - lo.e
         IN  IF d > 26 THEN hi
             ELSE LET la == Abs(lo.m) * 8
                      q  == Sticky(la \div 2^d, la % 2^d # 0)
                      l  == IF lo.m < 0 THEN -q ELSE q
                  IN  FlRound(hi.m * 8 + l, hi.e - 3)

FlSub(a, b) == FlAdd(a, FlNeg(b))

\* The 48-bit product of the significands is formed from 12-bit halves.
FlMul(a, b) ==
    IF a.m = 0 \/ b.m = 0 THEN FlZero
    ELSE LET x    == Abs(a.m)
             y    == Abs(b.m)
             x1   == x \div 4096
             x0   == x % 4096
             y1   == y \div 4096
             y0   == y % 4096
             mid  == x1 * y0 + x0 * y1
             l    == x0 * y0 + (mid % 4096) * 4096
             low  == l % F32Significand
             high == x1 * y1 + mid \div 4096 + l \div F32Significand
             mag  == Sticky(high * 8 + low \div 2^21, low % 2^21 # 0)
             s    == IF (a.m < 0) = (b.m < 0) THEN 1 ELSE -1
         IN  FlRound(s * mag, a.e + b.e + 21)

\* Long division, seven bits of the quotient at a time.
RECURSIVE DivDigits(_, _, _, _)
DivDigits(q, r, y, rounds) ==
    IF rounds = 0 THEN Sticky(q, r # 0)
    ELSE DivDigits(q * 128 + (r * 128) \div y, (r * 128) % y, y, rounds - 1)

\* b is not 0.
FlDiv(a, b) ==
    IF a.m = 0 THEN FlZero
    ELSE LET x == Abs(a.m)
             y == Abs(b.m)
             s == IF (a.m < 0) = (b.m < 0) THEN 1 ELSE -1
         IN  FlRound(s * DivDigits(x \div y, x % y, y, 4), a.e - b.e - 28)

FlLit(num, den) == FlDiv(FlInt(num), FlInt(den))

RECURSIVE ISqrt(_)
ISqrt(n) ==
    IF n < 2 THEN n
    ELSE LET s == 2 * ISqrt(n \div 4)
         IN  IF (s + 1) * (s + 1) <= n THEN s + 1 ELSE s

\* The square root, one bit of the root at a time.
RECURSIVE SqrtDigits(_, _, _)
SqrtDigits(root, rem, rounds) ==
    IF rounds = 0 THEN Sticky(root, rem # 0)
    ELSE LET r4    == rem * 4
             trial == 4 * root + 1
         IN  IF r4 >= trial
             THEN SqrtDigits(2 * root + 1, r4 - trial, rounds - 1)
             ELSE SqrtDigits(2 * root, r4, rounds - 1)

\* a is not negative.
FlSqrt(a) ==
    IF a.m = 0 THEN FlZero
    ELSE LET odd == a.e % 2 = 1
             m2  == IF odd THEN 2 * a.m ELSE a.m
             e2  == IF odd THEN a.e - 1 ELSE a.e
             r0  == ISqrt(m2)
         IN  FlRound(SqrtDigits(r0, m2 - r0 * r0, 14), e2 \div 2 - 14)

FlLess(a, b) ==
    IF a.m = 0 THEN b.m > 0
    ELSE IF b.m = 0 THEN a.m < 0
    ELSE IF (a.m < 0) # (b.m < 0) THEN a.m < 0
    ELSE IF a.m > 0 THEN a.e < b.e \/ (a.e = b.e /\ a.m < b.m)
    ELSE a.e > b.e \/ (a.e = b.e /\ a.m < b.m)

FlMin(a, b) == IF FlLess(b, a) THEN b ELSE a

FlMax(a, b) == IF FlLess(a, b) THEN b ELSE a

(***************************************************************************)
(* Startup: createShaderProgram and its caller in main().  The outcome of  *)
(* each compilation and of the link is an input, decided by the GL.        *)
(***************************************************************************)
VARIABLES
    vertShader,     \* GLuint vertShader: 0 or the name of a shader object
    fragShader,     \* GLuint fragShader
    shaderProgram,  \* GLuint shaderProgram, as main() receives it
    compileStatus,  \* GL_COMPILE_STATUS of the two shader objects
    linkStatus,     \* GL_LINK_STATUS of the program object
    diagnostics     \* what has been printed to stderr

startVars == <<vertShader, fragShader, shaderProgram, compileStatus, linkStatus,
               diagnostics>>

\* main()'s state other than its position and its exit status.
loopVars == <<variant, running, event, colorPalette, cameraOffsetX, cameraOffsetY,
              cameraDistance, windowWidth, windowHeight, viewport, camera,
              uniforms>>

\* Names of the GL objects; 0 is no object.
VertexName == 1

FragmentName == 2

ProgramName == 3

\* The value compileShader returns for the shader object name.
CompileShaderResult(v, name, success) ==
    IF v = "enhanced" /\ ~success THEN 0 ELSE name

\* The value createShaderProgram returns after the link.
LinkResult(v, success) ==
    IF v = "enhanced" /\ ~success THEN 0 ELSE ProgramName

\* The simple variant's main() does not test the program it receives.
ProgramAccepted(v, program) == v = "simple" \/ program # 0

\* The startup has been passed without a failure.
StartupInit ==
    /\ vertShader = VertexName
    /\ fragShader = FragmentName
    /\ shaderProgram = ProgramName
    /\ compileStatus = [vertex |-> TRUE, fragment |-> TRUE]
    /\ linkStatus = TRUE
    /\ diagnostics = <<>>

\* main() is about to call createShaderProgram.
StartupBegin ==
    /\ vertShader = 0
    /\ fragShader = 0
    /\ shaderProgram = 0
    /\ compileStatus = [vertex |-> FALSE, fragment |-> FALSE]
    /\ linkStatus = FALSE
    /\ diagnostics = <<>>

\* compileShader(GL_VERTEX_SHADER, vertSrc)
CompileVertex ==
    /\ pc = "compileVertex"
    /\ \E success \in BOOLEAN :
          /\ compileStatus' = [compileStatus EXCEPT !.vertex = success]
          /\ diagnostics' = IF success THEN diagnostics
                            ELSE Append(diagnostics, "Shader compilation failed")
          /\ vertShader' = CompileShaderResult(variant, VertexName, success)
    /\ pc' = "compileFragment"
    /\ UNCHANGED <<fragShader, shaderProgram, linkStatus, loopVars, exitStatus>>

\* compileShader(GL_FRAGMENT_SHADER, fragSrc), and the enhanced variant's test of
\* the two shaders.
CompileFragment ==
    /\ pc = "compileFragment"
    /\ \E success \in BOOLEAN :
          /\ compileStatus' = [compileStatus EXCEPT !.fragment = success]
          /\ diagnostics' = IF success THEN diagnostics
                            ELSE Append(diagnostics, "Shader compilation failed")
          /\ fragShader' = CompileShaderResult(variant, FragmentName, success)
    /\ IF variant = "enhanced" /\ (vertShader = 0 \/ fragShader' = 0)
       THEN /\ shaderProgram' = 0
            /\ pc' = "created"
       ELSE /\ shaderProgram' = shaderProgram
            /\ pc' = "link"
    /\ UNCHANGED <<vertShader, linkStatus, loopVars, exitStatus>>

\* glLinkProgram and what follows it in createShaderProgram.  The link of a
\* shader that did not compile fails.
LinkProgram ==
    /\ pc = "link"
    /\ \E success \in BOOLEAN :
          /\ success => compileStatus.vertex /\ compileStatus.fragment
          /\ linkStatus' = success
          /\ diagnostics' = IF success THEN diagnostics
                            ELSE Append(diagnostics, "Program linking failed")
          /\ shaderProgram' = LinkResult(variant, success)
    /\ pc' = "created"
    /\ UNCHANGED <<vertShader, fragShader, compileStatus, loopVars, exitStatus>>

\* main() after createShaderProgram: the enhanced variant leaves with status 1
\* when it has no program; otherwise the render loop is entered.
EnterLoop ==
    /\ pc = "created"
    /\ ProgramAccepted(variant, shaderProgram)
    /\ pc' = "poll"
    /\ UNCHANGED <<loopVars, exitStatus, startVars>>

ExitOnFailure ==
    /\ pc = "created"
    /\ ~ProgramAccepted(variant, shaderProgram)
    /\ exitStatus' = 1
    /\ pc' = "done"
    /\ UNCHANGED <<loopVars, startVars>>

(***************************************************************************)
(* The distance estimators: sierpinskiSDF of the simple fragment shader,   *)
(* sdSierpinski of the enhanced one.  A vec3 is [x, y, z] of floats.       *)
(***************************************************************************)
Vec3(a, b, cc) == [x |-> a, y |-> b, z |-> cc]

One == FlInt(1)

\* vec3(1e10): 1e10 is 5^10 * 2^10.
Huge == FlScale(FlInt(5^10), 10)

\* dot(v, w)
Dot(v, w) == FlAdd(FlAdd(FlMul(v.x, w.x), FlMul(v.y, w.y)), FlMul(v.z, w.z))

\* length(v)
Length(v) == FlSqrt(Dot(v, v))

VSub(v, w) == Vec3(FlSub(v.x, w.x), FlSub(v.y, w.y), FlSub(v.z, w.z))

\* The vertices a1..a4 of sierpinskiSDF.
Vertices == << Vec3(One, One, One),
               Vec3(FlNeg(One), FlNeg(One), One),
               Vec3(One, FlNeg(One), FlNeg(One)),
               Vec3(FlNeg(One), One, FlNeg(One)) >>

SimpleIterations == 12

EnhancedIterations == 14

Iterations(v) == IF v = "simple" THEN SimpleIterations ELSE EnhancedIterations

\* const float scale = 2.0, FRACTAL_SCALE = 2.0
Scale == FlInt(2)

\* c and dist after the vertex a[j] has been tried: the nearer of the two.
Nearer(best, q, j) ==
    LET dj == Length(VSub(q, Vertices[j]))
    IN  IF FlLess(dj, best.dist) THEN [c |-> Vertices[j], dist |-> dj] ELSE best

\* The vertex the body of sierpinskiSDF's loop selects for the point q.
NearestVertex(q) ==
    LET b1 == [c |-> Vertices[1], dist |-> Length(VSub(q, Vertices[1]))]
    IN  Nearer(Nearer(Nearer(b1, q, 2), q, 3), q, 4)

\* p = scale * p - c * (scale - 1.0)
Contract(q, cc) ==
    LET f(a, b) == FlSub(FlMul(Scale, a), FlMul(b, FlSub(Scale, One)))
    IN  Vec3(f(q.x, cc.x), f(q.y, cc.y), f(q.z, cc.z))

\* pow(scale, float(k)) for an integer k.
RECURSIVE FlPow(_, _)
FlPow(b, k) ==
    IF k = 0 THEN One
    ELSE IF k > 0 THEN FlMul(b, FlPow(b, k - 1))
    ELSE FlDiv(One, FlPow(b, -k))

\* Mutant of SimpleEstimate: a bounding radius is subtracted from the length.
SimpleEstimateSigned(q, k) == FlMul(FlSub(Length(q), FlInt(2)), FlPow(Scale, -k))

\* return length(p) * pow(scale, float(-n))
SimpleEstimate(q, k) == FlMul(Length(q), FlPow(Scale, -k))

\* The four folds of sdSierpinski, in their order.
Fold(q) ==
    LET q1 == IF FlLess(FlAdd(q.x, q.y), FlZero)
              THEN Vec3(FlNeg(q.y), FlNeg(q.x), q.z) ELSE q
        q2 == IF FlLess(FlAdd(q1.x, q1.z), FlZero)
              THEN Vec3(FlNeg(q1.z), q1.y, FlNeg(q1.x)) ELSE q1
        q3 == IF FlLess(FlAdd(q2.y, q2.z), FlZero)
              THEN Vec3(q2.x, FlNeg(q2.z), FlNeg(q2.y)) ELSE q2
    IN  IF FlLess(FlSub(q3.x, q3.y), FlZero) THEN Vec3(q3.y, q3.x, q3.z) ELSE q3

\* z = z * FRACTAL_SCALE - 1.0 * (FRACTAL_SCALE - 1.0)
ScaleTranslate(q) ==
    LET f(a) == FlSub(FlMul(a, Scale), FlMul(One, FlSub(Scale, One)))
    IN  Vec3(f(q.x), f(q.y), f(q.z))

\* Mutant of TrapUpdate: the trap takes the new sample.
TrapUpdateOverwrite(trap, q) ==
    Vec3(Length(q), FlAdd(FlAdd(FlAbs(q.x), FlAbs(q.y)), FlAbs(q.z)), Dot(q, q))

\* orbitTrap after an iteration has brought the point to q.
TrapUpdate(trap, q) ==
    Vec3(FlMin(trap.x, Length(q)),
         FlMin(trap.y, FlAdd(FlAdd(FlAbs(q.x), FlAbs(q.y)), FlAbs(q.z))),
         FlMin(trap.z, Dot(q, q)))

\* return 0.5 * r / dr, with r = length(z)
EnhancedEstimate(q, ddr) == FlDiv(FlMul(FlLit(1, 2), Length(q)), ddr)

\* The state of one activation of the estimator.  A local the code does not
\* initialise holds, at entry, whatever the previous activation left in it.
VARIABLES
    sdfPc,       \* "idle": not called yet; "loop": at the loop's test; "done"
    sdfP,        \* the argument p
    z,           \* vec3 z (enhanced); the parameter p as the loop rewrites it (simple)
    n,           \* int n
    dr,          \* float dr                (enhanced)
    orbitTrap,   \* out vec3 orbitTrap      (enhanced)
    minDist,     \* float minDist           (enhanced)
    c,           \* vec3 c                  (simple)
    dist,        \* float dist              (simple)
    sdfResult,   \* the value returned, meaningful once sdfPc = "done"
    calls,       \* history: activations begun
    polled,      \* history: events polled
    memo,        \* history: the argument and the results of the first activation
    between      \* history: what has happened since the first activation

sdfVars == <<sdfPc, sdfP, z, n, dr, orbitTrap, minDist, c, dist, sdfResult>>

sdfHistory == <<calls, polled, memo, between>>

\* Activations of the estimator in one behaviour.
MaxCalls == 3

\* Events polled in one behaviour of the estimator's specification.
MaxSdfEvents == 1

\* Decimal coordinates, in hundredths.
Point(a, b, cc) == Vec3(FlLit(a, 100), FlLit(b, 100), FlLit(cc, 100))

\* The points the estimator is called with.
SdfPoints == { Point(0, 0, 100), Point(30, -20, 70), Point(-325, 250, 12) }

\* Mutant of DrAtEntry: dr keeps the value the previous activation left.
DrAtEntryStale(v, stale) == stale

\* float dr = 1.0
DrAtEntry(v, stale) == IF v = "enhanced" THEN One ELSE stale

\* Mutant of TrapAtEntry: the trap keeps the value the previous activation left.
TrapAtEntryStale(v, stale) == stale

\* orbitTrap = vec3(1e10)
TrapAtEntry(v, stale) == IF v = "enhanced" THEN Vec3(Huge, Huge, Huge) ELSE stale

NoMemo == [valid |-> FALSE]

NoBetween == [call |-> FALSE, frame |-> FALSE, event |-> FALSE]

\* What a local holds before the first activation: a value no statement of the
\* estimator has written.
Stale == FlInt(3)

SdfInit ==
    /\ sdfPc = "idle"
    /\ sdfP = Vec3(Stale, Stale, Stale)
    /\ z = Vec3(Stale, Stale, Stale)
    /\ n = 0
    /\ dr = Stale
    /\ orbitTrap = Vec3(Stale, Stale, Stale)
    /\ minDist = Stale
    /\ c = Vec3(Stale, Stale, Stale)
    /\ dist = Stale
    /\ sdfResult = Stale
    /\ calls = 0
    /\ polled = 0
    /\ memo = NoMemo
    /\ between = NoBetween

\* The estimator is entered with the argument q: the declarations before the loop.
SdfEnter(q) ==
    /\ sdfPc \in {"idle", "done"}
    /\ sdfP' = q
    /\ z' = q
    /\ n' = 0
    /\ dr' = DrAtEntry(variant, dr)
    /\ orbitTrap' = TrapAtEntry(variant, orbitTrap)
    /\ minDist' = (IF variant = "enhanced" THEN Huge ELSE minDist)
    /\ sdfPc' = "loop"
    /\ UNCHANGED <<c, dist, sdfResult>>

\* One iteration of the estimator's loop.
SdfIterate ==
    /\ sdfPc = "loop"
    /\ n < Iterations(variant)
    /\ IF variant = "simple"
       THEN /\ LET best == NearestVertex(z)
               IN  /\ c' = best.c
                   /\ dist' = best.dist
            /\ z' = Contract(z, c')
            /\ UNCHANGED <<dr, orbitTrap, minDist>>
       ELSE /\ z' = ScaleTranslate(Fold(z))
            /\ dr' = FlMul(dr, Scale)
            /\ minDist' = FlMin(minDist, Length(z'))
            /\ orbitTrap' = TrapUpdate(orbitTrap, z')
            /\ UNCHANGED <<c, dist>>
    /\ n' = n + 1
    /\ UNCHANGED <<sdfPc, sdfP, sdfResult>>

\* The loop's test fails: the return statement.
SdfReturn ==
    /\ sdfPc = "loop"
    /\ ~(n < Iterations(variant))
    /\ sdfResult' = (IF variant = "simple" THEN SimpleEstimate(z, n)
                     ELSE EnhancedEstimate(z, dr))
    /\ sdfPc' = "done"
    /\ UNCHANGED <<sdfP, z, n, dr, orbitTrap, minDist, c, dist>>

\* A call of the estimator with one of SdfPoints, from the shader as it runs
\* for a frame that has been drawn and is not yet swapped.
SdfCall ==
    /\ pc = "swap"
    /\ calls < MaxCalls
    /\ calls' = calls + 1
    /\ \E q \in SdfPoints : SdfEnter(q)
    /\ UNCHANGED <<polled, memo, between>>

\* Coordinates of the grid, in hundredths.
GridCoordinates == {-325, 0, 30, 100, 450, 10^8}

\* The points of the grid.
SdfGrid == {Point(a, b, cc) : a, b, cc \in GridCoordinates}

\* The one call of the estimator in a behaviour that evaluates a point of the
\* grid.
SdfProbe ==
    /\ calls = 0
    /\ calls' = 1
    /\ \E q \in SdfGrid : SdfEnter(q)
    /\ UNCHANGED <<polled, memo, between>>

\* History of the returns.
SdfRemember ==
    /\ memo' = IF memo.valid THEN memo
               ELSE [valid |-> TRUE, p |-> sdfP, result |-> sdfResult',
                     trap |-> orbitTrap]
    /\ between' = [between EXCEPT !.call = @ \/ (memo.valid /\ memo.p # sdfP)]
    /\ UNCHANGED <<calls, polled>>

\* History of the driver's steps between two activations.
SdfFrames ==
    /\ sdfPc # "loop"
    /\ polled' = (IF pc = "poll" /\ pc' = "dispatch" THEN polled + 1 ELSE polled)
    /\ between' = [between EXCEPT !.frame = @ \/ (memo.valid /\ pc = "swap"),
                                  !.event = @ \/ (memo.valid /\ pc = "dispatch")]
    /\ UNCHANGED <<calls, memo>>

(***************************************************************************)
(* The ray marcher on a given ray, in floats, with the distance estimator  *)
(* above evaluated at each sample point.                                   *)
(***************************************************************************)
VARIABLES
    rayPc,         \* "idle", "loop": before an iteration, "sample": the estimator
                   \* runs, "exit": after the loop, "done"
    ro,            \* vec3 ro
    rd,            \* vec3 rd
    rayT,          \* float t
    rayI,          \* int i
    raySteps,      \* out int steps         (simple)
    rayTotalDist,  \* out float totalDist   (simple)
    rayTrap,       \* out vec3 orbitTrap    (enhanced)
    rayResult,     \* the value returned, meaningful once rayPc = "done"
    rayHit         \* history: the return was the one inside the loop

rayVars == <<rayPc, ro, rd, rayT, rayI, raySteps, rayTotalDist, rayTrap, rayResult,
             rayHit>>

VAdd(v, w) == Vec3(FlAdd(v.x, w.x), FlAdd(v.y, w.y), FlAdd(v.z, w.z))

\* v * a for a float a
VTimes(v, a) == Vec3(FlMul(v.x, a), FlMul(v.y, a), FlMul(v.z, a))

\* min(v, w), by component
VMin(v, w) == Vec3(FlMin(v.x, w.x), FlMin(v.y, w.y), FlMin(v.z, w.z))

\* Mutant of SamplePoint: the ray is followed against its direction.
SamplePointBackwards(o, dir, tt) == VSub(o, VTimes(dir, tt))

\* vec3 pos = ro + rd * t
SamplePoint(o, dir, tt) == VAdd(o, VTimes(dir, tt))

\* maxDist = 20.0, MAX_DIST = 50.0
FlMaxDist(v) == IF v = "simple" THEN FlInt(20) ELSE FlInt(50)

\* epsilon = 0.001, HIT_THRESHOLD = 0.0001
FlHitThreshold(v) == IF v = "simple" THEN FlLit(1, 1000) ELSE FlLit(1, 10000)

\* dist * 0.5 (simple), d * 0.6 (enhanced)
FlRelaxed(v, dd) == IF v = "simple" THEN FlMul(dd, FlLit(1, 2)) ELSE FlMul(dd, FlLit(6, 10))

\* Mutant of MissResult: the statement after the loop returns the distance marched.
MissResultDistance(tt) == tt

\* return -1.0
MissResult(tt) == FlNeg(One)

\* The rays: away from the fractal along the z axis, at the origin from the
\* camera's initial place, past the fractal, at the vertex (1, 1, 1), and from a
\* point of the edge between two vertices.
Rays == { [ro |-> Point(0, 0, 10000), rd |-> Point(0, 0, 100)],
          [ro |-> Point(0, 0, 450),   rd |-> Point(0, 0, -100)],
          [ro |-> Point(0, 0, 450),   rd |-> Point(60, 0, -80)],
          [ro |-> Point(300, 300, 300),
           rd |-> Vec3(FlLit(-57735, 100000), FlLit(-57735, 100000),
                       FlLit(-57735, 100000))],
          [ro |-> Point(0, 0, 100),   rd |-> Point(0, 0, 100)] }

RayInit ==
    /\ rayPc = "idle"
    /\ ro = Vec3(Stale, Stale, Stale)
    /\ rd = Vec3(Stale, Stale, Stale)
    /\ rayT = Stale
    /\ rayI = 0
    /\ raySteps = 0
    /\ rayTotalDist = Stale
    /\ rayTrap = Vec3(Stale, Stale, Stale)
    /\ rayResult = Stale
    /\ rayHit = FALSE

\* rayMarch is entered with the given ray: the statements before the loop.
RayEnter(ray) ==
    /\ ro' = ray.ro
    /\ rd' = ray.rd
    /\ rayT' = FlZero
    /\ rayI' = 0
    /\ raySteps' = 0
    /\ rayTrap' = (IF variant = "enhanced" THEN Vec3(Huge, Huge, Huge) ELSE rayTrap)
    /\ rayHit' = FALSE
    /\ rayPc' = "loop"
    /\ UNCHANGED <<rayTotalDist, rayResult>>

\* rayMarch is called with one of Rays.
RayCall ==
    /\ rayPc = "idle"
    /\ \E ray \in Rays : RayEnter(ray)

\* The head of an iteration: the estimator is called with the sample point.
RaySample ==
    /\ rayPc = "loop"
    /\ SdfEnter(SamplePoint(ro, rd, rayT))
    /\ rayPc' = "sample"
    /\ UNCHANGED <<ro, rd, rayT, rayI, raySteps, rayTotalDist, rayTrap, rayResult,
                   rayHit>>

\* The rest of the iteration, once the estimator has returned.
RayStep ==
    /\ rayPc = "sample"
    /\ sdfPc = "done"
    /\ rayTrap' = (IF variant = "enhanced" THEN VMin(rayTrap, orbitTrap) ELSE rayTrap)
    /\ IF FlLess(sdfResult, FlHitThreshold(variant))
       THEN /\ rayTotalDist' = (IF variant = "simple" THEN rayT ELSE rayTotalDist)
            /\ rayResult' = HitResult(variant, sdfResult, rayT)
            /\ rayHit' = TRUE
            /\ rayPc' = "done"
            /\ UNCHANGED <<rayT, rayI, raySteps>>
       ELSE /\ rayT' = FlAdd(rayT, FlRelaxed(variant, sdfResult))
            /\ raySteps' = (IF variant = "simple" THEN raySteps + 1 ELSE raySteps)
            /\ rayI' = rayI + 1
            /\ rayPc' = IF FlLess(FlMaxDist(variant), rayT') \/ ~InBudget(variant, rayI')
                        THEN "exit" ELSE "loop"
            /\ UNCHANGED <<rayTotalDist, rayResult, rayHit>>
    /\ UNCHANGED <<ro, rd>>

\* The statements after the loop: the miss.
RayMiss ==
    /\ rayPc = "exit"
    /\ rayTotalDist' = (IF variant = "simple" THEN rayT ELSE rayTotalDist)
    /\ rayResult' = MissResult(rayT)
    /\ rayPc' = "done"
    /\ UNCHANGED <<ro, rd, rayT, rayI, raySteps, rayTrap, rayHit>>

(***************************************************************************)
(* calcShadow of the enhanced variant.  The value map() returns at a       *)
(* sample point is any of ShadowSamples.                                   *)
(***************************************************************************)
VARIABLES
    shadowPc,       \* "idle", "loop", "exit": after the loop, "done"
    shadowT,        \* float t
    shadowRes,      \* float res
    shadowI,        \* int i
    shadowH,        \* float h, the last sample
    shadowResult,   \* the value returned, meaningful once shadowPc = "done"
    shadowSamples   \* history: the number of calls of map()

shadowVars == <<shadowPc, shadowT, shadowRes, shadowI, shadowH, shadowResult,
                shadowSamples>>


\* calcShadow(p, lightDir, 0.02, 5.0, 8.0)
Mint == FlLit(2, 100)
Maxt == FlInt(5)
Penumbra == FlInt(8)

\* for (int i = 0; i < 32; i++)
ShadowBudget == 32

\* Mutant of ShadowInBudget: the loop test is i <= 32.
ShadowInBudgetInclusive(count) == count <= ShadowBudget

\* i < 32
ShadowInBudget(count) == count < ShadowBudget

\* What map() returns: zero, 2^-14 (below the threshold), 2^-9, 2^-3 and 4.
ShadowSamples == { FlZero, FlScale(One, -14), FlScale(One, -9), FlScale(One, -3),
                   FlInt(4) }

\* clamp(x, minVal, maxVal) = min(max(x, minVal), maxVal)
Clamp(a, lo, hi) == FlMin(FlMax(a, lo), hi)

ShadowInit ==
    /\ shadowPc = "idle"
    /\ shadowT = Stale
    /\ shadowRes = Stale
    /\ shadowI = 0
    /\ shadowH = Stale
    /\ shadowResult = Stale
    /\ shadowSamples = 0

\* The statements before the loop.
ShadowCall ==
    /\ shadowPc = "idle"
    /\ variant = "enhanced"
    /\ shadowRes' = One
    /\ shadowT' = Mint
    /\ shadowI' = 0
    /\ shadowPc' = IF ShadowInBudget(shadowI') THEN "loop" ELSE "exit"
    /\ UNCHANGED <<shadowH, shadowResult, shadowSamples>>

\* One iteration of the loop.
ShadowStep ==
    /\ shadowPc = "loop"
    /\ \E h \in ShadowSamples : shadowH' = h
    /\ shadowSamples' = shadowSamples + 1
    /\ IF FlLess(shadowH', FlHitThreshold("enhanced"))
       THEN /\ shadowResult' = FlZero
            /\ shadowPc' = "done"
            /\ UNCHANGED <<shadowRes, shadowT, shadowI>>
       ELSE /\ shadowRes' = FlMin(shadowRes, FlDiv(FlMul(Penumbra, shadowH'), shadowT))
            /\ shadowT' = FlAdd(shadowT, shadowH')
            /\ shadowI' = shadowI + 1
            /\ shadowPc' = IF FlLess(Maxt, shadowT') \/ ~ShadowInBudget(shadowI')
                           THEN "exit" ELSE "loop"
            /\ UNCHANGED shadowResult

\* The statement after the loop.
ShadowReturn ==
    /\ shadowPc = "exit"
    /\ shadowResult' = Clamp(shadowRes, FlZero, One)
    /\ shadowPc' = "done"
    /\ UNCHANGED <<shadowT, shadowRes, shadowI, shadowH, shadowSamples>>

(***************************************************************************)
(* One sample of the enhanced fragment shader's main(): the primary ray,   *)
(* the branch on its result, the normal at the hit point, and the          *)
(* reflected ray of traceReflection with the branch on its result.  The    *)
(* lighting, shadow and colour computations between them decide neither    *)
(* branch nor ray and are left out.                                        *)
(***************************************************************************)
VARIABLES
    fragPc,       \* "idle", "primary": rayMarch runs for main, "normal": before
                  \* a sample of calcNormal, "normalMap": map() runs for it,
                  \* "trace": before traceReflection, "reflection": rayMarch
                  \* runs for traceReflection, "done"
    hitPoint,     \* vec3 p = ro + rd * t
    primaryDir,   \* vec3 rd of main
    normalSum,    \* the sum calcNormal normalizes, so far
    normalK,      \* the number of its terms added
    normal,       \* vec3 normal
    mainBranch,   \* "none", "surface": the block under if (t > 0.0), "sky"
    reflBranch,   \* the same for traceReflection
    mainHit,      \* history: main's rayMarch returned from inside its loop
    reflHit       \* history: traceReflection's rayMarch did

fragVars == <<fragPc, hitPoint, primaryDir, normalSum, normalK, normal, mainBranch,
              reflBranch, mainHit, reflHit>>


\* int windowWidth = 1920; int windowHeight = 1080;
Resolution == [x |-> FlInt(1920), y |-> FlInt(1080)]

\* u_camPos of a frame at time 0 with the initial offsets and distance:
\* sinf(0) = 0, cosf(0) = 1.
CamPos ==
    Vec3(FlAdd(FlMul(FlZero, FlLit(4, 10)), FlZero),
         FlAdd(FlAdd(FlMul(FlZero, FlLit(3, 10)), FlMul(One, FlLit(2, 10))), FlZero),
         FlAdd(FlLit(45, 10), FlMul(One, FlLit(6, 10))))

\* u_rotation of that frame: both angles are 0.
Rotation == <<Vec3(One, FlZero, FlZero), Vec3(FlZero, One, FlZero),
              Vec3(FlZero, FlZero, One)>>

\* mat3 * vec3, the matrix given by its columns
Rotate(mat, v) == VAdd(VAdd(VTimes(mat[1], v.x), VTimes(mat[2], v.y)), VTimes(mat[3], v.z))

\* normalize(v)
Normalize(v) == LET len == Length(v) IN Vec3(FlDiv(v.x, len), FlDiv(v.y, len), FlDiv(v.z, len))

\* reflect(I, N) = I - 2.0 * dot(N, I) * N
Reflect(inc, nrm) == VSub(inc, VTimes(nrm, FlMul(FlInt(2), Dot(nrm, inc))))

\* gl_FragCoord.xy of the pixels shaded: pixel centres
Pixels == { [x |-> FlLit(1745, 2), y |-> FlLit(1521, 2)],
            [x |-> FlLit(1, 2),    y |-> FlLit(1, 2)],
            [x |-> FlLit(2393, 2), y |-> FlLit(619, 2)],
            [x |-> FlLit(1863, 2), y |-> FlLit(809, 2)] }

\* uv of the first sample (aa_x = aa_y = 0) and the ray direction through it
PixelDir(coord) ==
    LET ux == FlDiv(FlSub(coord.x, FlMul(FlLit(1, 2), Resolution.x)), Resolution.y)
        uy == FlDiv(FlSub(coord.y, FlMul(FlLit(1, 2), Resolution.y)), Resolution.y)
    IN  Rotate(Rotation, Normalize(Vec3(ux, uy, FlLit(-18, 10))))

\* const vec2 k = vec2(1, -1): k.xyy, k.yyx, k.yxy, k.xxx
NormalOffsets == << Vec3(One, FlNeg(One), FlNeg(One)), Vec3(FlNeg(One), FlNeg(One), One),
                    Vec3(FlNeg(One), One, FlNeg(One)), Vec3(One, One, One) >>

\* const float h = 0.0001
NormalH == FlLit(1, 10000)

\* if (t > 0.0)
TreatedAsHit(tt) == FlLess(FlZero, tt)

FragInit ==
    /\ fragPc = "idle"
    /\ hitPoint = Vec3(Stale, Stale, Stale)
    /\ primaryDir = Vec3(Stale, Stale, Stale)
    /\ normalSum = Vec3(Stale, Stale, Stale)
    /\ normalK = 0
    /\ normal = Vec3(Stale, Stale, Stale)
    /\ mainBranch = "none"
    /\ reflBranch = "none"
    /\ mainHit = FALSE
    /\ reflHit = FALSE

\* main: float t = rayMarch(ro, rd, orbitTrap)
FragBegin ==
    /\ fragPc = "idle"
    /\ variant = "enhanced"
    /\ rayPc = "idle"
    /\ \E coord \in Pixels :
          /\ primaryDir' = PixelDir(coord)
          /\ RayEnter([ro |-> CamPos, rd |-> primaryDir'])
    /\ fragPc' = "primary"
    /\ UNCHANGED <<hitPoint, normalSum, normalK, normal, mainBranch, reflBranch, mainHit,
                   reflHit>>

\* main: if (t > 0.0) { vec3 p = ro + rd * t; ... } once rayMarch has returned
MainBranch ==
    /\ fragPc = "primary"
    /\ rayPc = "done"
    /\ mainHit' = rayHit
    /\ IF TreatedAsHit(rayResult)
       THEN /\ mainBranch' = "surface"
            /\ hitPoint' = SamplePoint(ro, rd, rayResult)
            /\ normalSum' = Vec3(FlZero, FlZero, FlZero)
            /\ normalK' = 0
            /\ fragPc' = "normal"
       ELSE /\ mainBranch' = "sky"
            /\ fragPc' = "done"
            /\ UNCHANGED <<hitPoint, normalSum, normalK>>
    /\ UNCHANGED <<primaryDir, normal, reflBranch, reflHit>>

\* calcNormal: map(p + k * h) is called for the next term
NormalSample ==
    /\ fragPc = "normal"
    /\ SdfEnter(VAdd(hitPoint, VTimes(NormalOffsets[normalK + 1], NormalH)))
    /\ fragPc' = "normalMap"
    /\ UNCHANGED <<hitPoint, primaryDir, normalSum, normalK, normal, mainBranch,
                   reflBranch, mainHit, reflHit>>

\* calcNormal: the term is added; after the fourth the sum is normalized
NormalAdd ==
    /\ fragPc = "normalMap"
    /\ sdfPc = "done"
    /\ normalSum' = VAdd(normalSum, VTimes(NormalOffsets[normalK + 1], sdfResult))
    /\ normalK' = normalK + 1
    /\ IF normalK' = Len(NormalOffsets)
       THEN /\ normal' = Normalize(normalSum')
            /\ fragPc' = "trace"
       ELSE /\ fragPc' = "normal"
            /\ UNCHANGED normal
    /\ UNCHANGED <<hitPoint, primaryDir, mainBranch, reflBranch, mainHit, reflHit>>

\* traceReflection(p, rd, normal, ...): rayMarch(ro + normal * 0.01, reflectDir, orbitTrap)
TraceReflection ==
    /\ fragPc = "trace"
    /\ RayEnter([ro |-> VAdd(hitPoint, VTimes(normal, FlLit(1, 100))),
                 rd |-> Reflect(primaryDir, normal)])
    /\ fragPc' = "reflection"
    /\ UNCHANGED <<hitPoint, primaryDir, normalSum, normalK, normal, mainBranch,
                   reflBranch, mainHit, reflHit>>

\* traceReflection: if (t > 0.0) { ... return reflColor; } return getSkyColor(reflectDir)
ReflectionBranch ==
    /\ fragPc = "reflection"
    /\ rayPc = "done"
    /\ reflHit' = rayHit
    /\ reflBranch' = IF TreatedAsHit(rayResult) THEN "surface" ELSE "sky"
    /\ fragPc' = "done"
    /\ UNCHANGED <<hitPoint, primaryDir, normalSum, normalK, normal, mainBranch, mainHit>>

(***************************************************************************)
(* getColorPalette of the enhanced variant.  GLSL leaves the accuracy of   *)
(* cos to the implementation: the cosine here is evaluated in binary32 by  *)
(* reduction of the argument and a polynomial (within 2 * 10^-7 of the     *)
(* true cosine for arguments up to 140), and an implementation may return  *)
(* a value up to CosSlack units of 2^-23 away from it.                     *)
(***************************************************************************)
VARIABLES
    palettePc,     \* "idle", "called", "done"
    hue,           \* float t of the first call
    paletteIndex,  \* int palette
    color,         \* getColorPalette(t, palette)
    colorShifted   \* getColorPalette(t + 1.0, palette)

paletteVars == <<palettePc, hue, paletteIndex, color, colorShifted>>

shadeVars == <<shadowVars, fragVars, paletteVars>>

\* Hues are the multiples of 0.7 from -0.7 * MaxHue to 0.7 * MaxHue.
MaxHue == 24

CosSlack == {-1, 0, 1}

\* Mutant of TAU: the constant is cut to two decimals.
TauShort == FlLit(628, 100)

\* The binary32 value m * 2^e, for 2^23 <= |m| < 2^24
Binary32(m, e) == [m |-> m, e |-> e]

\* 0.5
Half == Binary32(8388608, -24)

\* const float TAU = 6.28318530718
TAU == Binary32(13176795, -21)

\* floor(a + 0.5) of a float, as an integer
RoundToInt(a) ==
    IF a.e >= 0 THEN a.m * 2^a.e
    ELSE IF -a.e >= 26 THEN 0
    ELSE (2 * a.m + 2^(-a.e)) \div 2^(1 - a.e)

\* 2 pi in three parts (6.28125, 2029 * 2^-20 and the rest), 1 / (2 pi), pi in
\* two parts and pi / 2
TwoPiHigh == Binary32(13172736, -21)
TwoPiMid == Binary32(16621568, -33)
TwoPiLow == Binary32(10625385, -45)
InvTwoPi == Binary32(10680707, -26)
PiHigh == Binary32(13176795, -22)
PiLow == Binary32(-12303662, -47)
HalfPi == Binary32(13176795, -23)

\* a minus the nearest multiple of 2 pi
CosReduce(a) ==
    LET turns == FlInt(RoundToInt(FlMul(a, InvTwoPi)))
    IN  FlSub(FlSub(FlSub(a, FlMul(turns, TwoPiHigh)), FlMul(turns, TwoPiMid)),
              FlMul(turns, TwoPiLow))

\* -1/2!, 1/4!, -1/6!, 1/8!, -1/10!, 1/12!
CosCoefficients == << Binary32(-8388608, -24), Binary32(11184811, -28),
                      Binary32(-11930465, -33), Binary32(13634817, -39),
                      Binary32(-9695870, -45), Binary32(9402055, -52) >>

\* 1 - u/2! + u^2/4! - ... + u^6/12! for u = a * a, by Horner's rule
CosSeries(a) ==
    LET u  == FlMul(a, a)
        c5 == FlAdd(CosCoefficients[5], FlMul(u, CosCoefficients[6]))
        c4 == FlAdd(CosCoefficients[4], FlMul(u, c5))
        c3 == FlAdd(CosCoefficients[3], FlMul(u, c4))
        c2 == FlAdd(CosCoefficients[2], FlMul(u, c3))
        c1 == FlAdd(CosCoefficients[1], FlMul(u, c2))
    IN  FlAdd(One, FlMul(u, c1))

\* cos(a)
Cos(a) ==
    LET r == FlAbs(CosReduce(a))
    IN  IF FlLess(HalfPi, r)
        THEN FlNeg(CosSeries(FlAdd(FlSub(PiHigh, r), PiLow)))
        ELSE CosSeries(r)

\* The vec3 added to t in each of the four branches
\* (0.0, 0.33, 0.67), (0.0, 0.1, 0.2), (0.6, 0.5, 0.8), (0.15, 0.1, 0.0)
OffsetTable == << Vec3(FlZero, Binary32(11072963, -25), Binary32(11240735, -24)),
                  Vec3(FlZero, Binary32(13421773, -27), Binary32(13421773, -26)),
                  Vec3(Binary32(10066330, -24), Binary32(8388608, -24), Binary32(13421773, -24)),
                  Vec3(Binary32(10066330, -26), Binary32(13421773, -27), FlZero) >>

\* if (palette == 0) ... else if (palette == 1) ... else if (palette == 2) ... else
PaletteOffsets(index) ==
    IF index = 0 THEN OffsetTable[1]
    ELSE IF index = 1 THEN OffsetTable[2]
    ELSE IF index = 2 THEN OffsetTable[3]
    ELSE OffsetTable[4]

\* cos(TAU * (t + offsets)), by component, as the polynomial gives it
PaletteCosines(tt, index) ==
    LET offsets == PaletteOffsets(index)
    IN  Vec3(Cos(FlMul(TAU, FlAdd(tt, offsets.x))), Cos(FlMul(TAU, FlAdd(tt, offsets.y))),
             Cos(FlMul(TAU, FlAdd(tt, offsets.z))))

\* 0.5 + 0.5 * cosine for one component, the cosine off by slack units of 2^-23
PaletteChannel(cosine, slack) ==
    FlAdd(Half, FlMul(Half, FlAdd(cosine, FlScale(FlInt(slack), -23))))

\* 0.5 + 0.5 * cosines
PaletteColor(cosines, slack) ==
    Vec3(PaletteChannel(cosines.x, slack), PaletteChannel(cosines.y, slack),
         PaletteChannel(cosines.z, slack))

GetColorPalette(tt, index, slack) == PaletteColor(PaletteCosines(tt, index), slack)

PaletteInit ==
    /\ palettePc = "idle"
    /\ hue = Stale
    /\ paletteIndex = 0
    /\ color = Vec3(Stale, Stale, Stale)
    /\ colorShifted = Vec3(Stale, Stale, Stale)

\* A hue and a palette are given.
PaletteCall ==
    /\ palettePc = "idle"
    /\ variant = "enhanced"
    /\ \E step \in -MaxHue..MaxHue : hue' = FlLit(7 * step, 10)
    /\ \E index \in 0..(PaletteCount - 1) : paletteIndex' = index
    /\ palettePc' = "called"
    /\ UNCHANGED <<color, colorShifted>>

\* getColorPalette is evaluated at the hue and at the hue plus 1.0.
PaletteEval ==
    /\ palettePc = "called"
    /\ \E first \in {PaletteCosines(hue, paletteIndex)}, slack \in CosSlack :
          color' = PaletteColor(first, slack)
    /\ \E second \in {PaletteCosines(FlAdd(hue, One), paletteIndex)}, slack \in CosSlack :
          colorShifted' = PaletteColor(second, slack)
    /\ palettePc' = "done"
    /\ UNCHANGED <<hue, paletteIndex>>

(***************************************************************************)
(* Specifications.                                                         *)
(***************************************************************************)
\* The state of the startup and of the shader's functions.
shaderVars == <<startVars, sdfVars, sdfHistory, rayVars, shadeVars>>

\* The shader's functions before their first call.
FunctionsInit == SdfInit /\ RayInit /\ ShadowInit /\ FragInit /\ PaletteInit

ShaderInit == StartupInit /\ FunctionsInit

vars == <<driverVars, historyVars, marchVars, shaderVars>>

Init == DriverInit /\ HistoryInit /\ MarchInit /\ ShaderInit

\* The frame driver of either variant, with every event.
Next ==
    \/ PollEvent /\ DriverHistory /\ UNCHANGED <<zoomRun, marchVars, shaderVars>>
    \/ PollEmpty /\ DriverHistory /\ UNCHANGED <<zoomRun, marchVars, shaderVars>>
    \/ HandleEventEnhanced /\ DriverHistory /\ UNCHANGED <<zoomRun, marchVars, shaderVars>>
    \/ HandleEventSimple /\ DriverHistory /\ UNCHANGED <<zoomRun, marchVars, shaderVars>>
    \/ NextEvent /\ DriverHistory /\ UNCHANGED <<zoomRun, marchVars, shaderVars>>
    \/ ComputeCamera /\ DriverHistory /\ UNCHANGED <<zoomRun, marchVars, shaderVars>>
    \/ UploadAndDraw /\ DriverHistory /\ UNCHANGED <<zoomRun, marchVars, shaderVars>>
    \/ SwapWindow /\ DriverHistory /\ UNCHANGED <<zoomRun, marchVars, shaderVars>>
    \/ Cleanup /\ DriverHistory /\ UNCHANGED <<zoomRun, marchVars, shaderVars>>

Spec == Init /\ [][Next]_vars

\* The enhanced frame driver under the zoom keys, 'r' and the quit event, with the
\* history of zoom runs.
ZoomEvents == {QuitEvent} \cup {KeyDownEvent(k) : k \in {"PLUS", "EQUALS", "MINUS", "r"}}

PollZoomEvent == PollFrom(ZoomEvents)

InitZoom == Init /\ variant = "enhanced"

NextZoom ==
    \/ PollZoomEvent /\ DriverHistory /\ ZoomHistory /\ UNCHANGED <<marchVars, shaderVars>>
    \/ PollEmpty /\ DriverHistory /\ ZoomHistory /\ UNCHANGED <<marchVars, shaderVars>>
    \/ HandleEventEnhanced /\ DriverHistory /\ ZoomHistory /\ UNCHANGED <<marchVars, shaderVars>>
    \/ NextEvent /\ DriverHistory /\ ZoomHistory /\ UNCHANGED <<marchVars, shaderVars>>
    \/ ComputeCamera /\ DriverHistory /\ ZoomHistory /\ UNCHANGED <<marchVars, shaderVars>>
    \/ UploadAndDraw /\ DriverHistory /\ ZoomHistory /\ UNCHANGED <<marchVars, shaderVars>>
    \/ SwapWindow /\ DriverHistory /\ ZoomHistory /\ UNCHANGED <<marchVars, shaderVars>>
    \/ Cleanup /\ DriverHistory /\ ZoomHistory /\ UNCHANGED <<marchVars, shaderVars>>

SpecZoom == InitZoom /\ [][NextZoom]_vars

\* The frame driver of either variant, with every event, the zoom explored near
\* 4.5 only.  Each step of main() is taken in the end, and the event queue runs
\* empty again and again: events arrive more slowly than the loop handles them.
PollNearEvent == PollEvent /\ WithinZoomBound(DispatchEnhanced(event', AppState))

NextNear ==
    \/ PollNearEvent /\ DriverHistory /\ UNCHANGED <<zoomRun, marchVars, shaderVars>>
    \/ PollEmpty /\ DriverHistory /\ UNCHANGED <<zoomRun, marchVars, shaderVars>>
    \/ HandleEventEnhanced /\ DriverHistory /\ UNCHANGED <<zoomRun, marchVars, shaderVars>>
    \/ HandleEventSimple /\ DriverHistory /\ UNCHANGED <<zoomRun, marchVars, shaderVars>>
    \/ NextEvent /\ DriverHistory /\ UNCHANGED <<zoomRun, marchVars, shaderVars>>
    \/ ComputeCamera /\ DriverHistory /\ UNCHANGED <<zoomRun, marchVars, shaderVars>>
    \/ UploadAndDraw /\ DriverHistory /\ UNCHANGED <<zoomRun, marchVars, shaderVars>>
    \/ SwapWindow /\ DriverHistory /\ UNCHANGED <<zoomRun, marchVars, shaderVars>>
    \/ Cleanup /\ DriverHistory /\ UNCHANGED <<zoomRun, marchVars, shaderVars>>

FairDriver ==
    /\ Init
    /\ [][NextNear]_vars
    /\ WF_vars(NextNear)
    /\ SF_vars(PollEmpty /\ DriverHistory /\ UNCHANGED <<zoomRun, marchVars, shaderVars>>)

\* The ray marcher of either variant.
NextMarch ==
    \/ MarchStep /\ UNCHANGED <<driverVars, historyVars, shaderVars>>
    \/ MarchMiss /\ UNCHANGED <<driverVars, historyVars, shaderVars>>

SpecMarch == Init /\ [][NextMarch]_vars

\* The shader runs its loop to the end: no iteration waits for anything.
FairMarch == SpecMarch /\ WF_vars(NextMarch)

\* Either variant from the call of createShaderProgram on, with every outcome of
\* the compilations and of the link, then the frame driver.
InitStartup ==
    /\ pc = "compileVertex"
    /\ MainLocals
    /\ HistoryInit
    /\ MarchInit
    /\ StartupBegin
    /\ FunctionsInit

NextStartup ==
    \/ CompileVertex /\ UNCHANGED <<historyVars, marchVars, sdfVars, sdfHistory, rayVars, shadeVars>>
    \/ CompileFragment /\ UNCHANGED <<historyVars, marchVars, sdfVars, sdfHistory, rayVars, shadeVars>>
    \/ LinkProgram /\ UNCHANGED <<historyVars, marchVars, sdfVars, sdfHistory, rayVars, shadeVars>>
    \/ EnterLoop /\ UNCHANGED <<historyVars, marchVars, sdfVars, sdfHistory, rayVars, shadeVars>>
    \/ ExitOnFailure /\ UNCHANGED <<historyVars, marchVars, sdfVars, sdfHistory, rayVars, shadeVars>>
    \/ NextNear

SpecStartup == InitStartup /\ [][NextStartup]_vars

\* The distance estimator of either variant, called again and again while frames
\* are drawn and palette events are handled.
SdfEvents == {KeyDownEvent("SPACE")}

PollSdfEvent == PollFrom(SdfEvents) /\ polled < MaxSdfEvents

NextSdf ==
    \/ SdfCall /\ UNCHANGED <<driverVars, historyVars, marchVars, startVars, rayVars, shadeVars>>
    \/ SdfIterate /\ UNCHANGED <<driverVars, historyVars, marchVars, startVars, sdfHistory, rayVars, shadeVars>>
    \/ SdfReturn /\ SdfRemember /\ UNCHANGED <<driverVars, historyVars, marchVars, startVars, rayVars, shadeVars>>
    \/ PollSdfEvent /\ DriverHistory /\ SdfFrames /\ UNCHANGED <<zoomRun, marchVars, startVars, sdfVars, rayVars, shadeVars>>
    \/ PollEmpty /\ DriverHistory /\ SdfFrames /\ UNCHANGED <<zoomRun, marchVars, startVars, sdfVars, rayVars, shadeVars>>
    \/ HandleEventEnhanced /\ DriverHistory /\ SdfFrames /\ UNCHANGED <<zoomRun, marchVars, startVars, sdfVars, rayVars, shadeVars>>
    \/ HandleEventSimple /\ DriverHistory /\ SdfFrames /\ UNCHANGED <<zoomRun, marchVars, startVars, sdfVars, rayVars, shadeVars>>
    \/ NextEvent /\ DriverHistory /\ SdfFrames /\ UNCHANGED <<zoomRun, marchVars, startVars, sdfVars, rayVars, shadeVars>>
    \/ ComputeCamera /\ DriverHistory /\ SdfFrames /\ UNCHANGED <<zoomRun, marchVars, startVars, sdfVars, rayVars, shadeVars>>
    \/ UploadAndDraw /\ DriverHistory /\ SdfFrames /\ UNCHANGED <<zoomRun, marchVars, startVars, sdfVars, rayVars, shadeVars>>
    \/ SwapWindow /\ DriverHistory /\ SdfFrames /\ UNCHANGED <<zoomRun, marchVars, startVars, sdfVars, rayVars, shadeVars>>

SpecSdf == Init /\ [][NextSdf]_vars

\* The distance estimator of either variant, called once with a point of the grid.
NextSdfGrid ==
    \/ SdfProbe /\ UNCHANGED <<driverVars, historyVars, marchVars, startVars, rayVars, shadeVars>>
    \/ SdfIterate /\ UNCHANGED <<driverVars, historyVars, marchVars, startVars, sdfHistory, rayVars, shadeVars>>
    \/ SdfReturn /\ SdfRemember /\ UNCHANGED <<driverVars, historyVars, marchVars, startVars, rayVars, shadeVars>>

SpecSdfGrid == Init /\ [][NextSdfGrid]_vars

\* The ray marcher of either variant on one of Rays.
restOfRay == <<driverVars, historyVars, marchVars, startVars, sdfHistory, shadeVars>>

NextRay ==
    \/ RayCall /\ UNCHANGED <<restOfRay, sdfVars>>
    \/ RaySample /\ UNCHANGED restOfRay
    \/ SdfIterate /\ rayPc = "sample" /\ UNCHANGED <<restOfRay, rayVars>>
    \/ SdfReturn /\ rayPc = "sample" /\ UNCHANGED <<restOfRay, rayVars>>
    \/ RayStep /\ UNCHANGED <<restOfRay, sdfVars>>
    \/ RayMiss /\ UNCHANGED <<restOfRay, sdfVars>>

SpecRay == Init /\ [][NextRay]_vars

\* calcShadow on every sequence of samples.
restOfShadow == <<driverVars, historyVars, marchVars, startVars, sdfVars, sdfHistory,
                  rayVars, fragVars, paletteVars>>

NextShadow ==
    \/ ShadowCall /\ UNCHANGED restOfShadow
    \/ ShadowStep /\ UNCHANGED restOfShadow
    \/ ShadowReturn /\ UNCHANGED restOfShadow

SpecShadow == Init /\ [][NextShadow]_vars

\* The enhanced fragment shader on the pixels of Pixels.
restOfFrag == <<driverVars, historyVars, marchVars, startVars, sdfHistory, shadowVars,
                paletteVars>>

NextFrag ==
    \/ FragBegin /\ UNCHANGED <<restOfFrag, sdfVars>>
    \/ RaySample /\ UNCHANGED <<restOfFrag, fragVars>>
    \/ SdfIterate /\ UNCHANGED <<restOfFrag, rayVars, fragVars>>
    \/ SdfReturn /\ UNCHANGED <<restOfFrag, rayVars, fragVars>>
    \/ RayStep /\ UNCHANGED <<restOfFrag, sdfVars, fragVars>>
    \/ RayMiss /\ UNCHANGED <<restOfFrag, sdfVars, fragVars>>
    \/ MainBranch /\ UNCHANGED <<restOfFrag, sdfVars, rayVars>>
    \/ NormalSample /\ UNCHANGED <<restOfFrag, rayVars>>
    \/ NormalAdd /\ UNCHANGED <<restOfFrag, sdfVars, rayVars>>
    \/ TraceReflection /\ UNCHANGED <<restOfFrag, sdfVars>>
    \/ ReflectionBranch /\ UNCHANGED <<restOfFrag, sdfVars, rayVars>>

SpecFrag == Init /\ [][NextFrag]_vars

\* getColorPalette on the hues and palettes.
restOfPalette == <<driverVars, historyVars, marchVars, startVars, sdfVars, sdfHistory,
                   rayVars, shadowVars, fragVars>>

NextColors ==
    \/ PaletteCall /\ UNCHANGED restOfPalette
    \/ PaletteEval /\ UNCHANGED restOfPalette

SpecColors == Init /\ [][NextColors]_vars

(***************************************************************************)
(* The claims.                                                             *)
(***************************************************************************)

\* Numbers of the claims, as binary32 values.
Two == 2 * F32Unit

Ten == 10 * F32Unit

FourAndAHalf == (9 * F32Unit) \div 2

\* x is the binary32 sum of y and the literal num/den, up to the rounding of the
\* literal and of the sum.
SumOf(x, y, num, den) ==
    Abs(den * (x - y) - num * F32Unit) <= den * F32Quantum(Abs(x)) + F32Quantum(Abs(y))

Handled(e) == variant = "enhanced" /\ last.event = e

\* C1: in the enhanced frame driver cameraDistance lies in [2.0, 10.0] in every
\* reachable state, whatever events were handled.
C1_DistanceInRange ==
    variant = "enhanced" => (Two <= cameraDistance /\ cameraDistance <= Ten)

\* C1 witness: a '-' event met a distance whose sum with 0.2 exceeds 10.0, and the
\* distance is 10.0.
C1_Witness ==
    /\ Handled(KeyDownEvent("MINUS"))
    /\ last.before.cameraDistance + ZoomStep > Ten
    /\ cameraDistance = Ten

\* C2: in the enhanced frame driver colorPalette is in 0..3 in every reachable
\* state, and so is the value uploaded as u_colorPalette for every frame.
C2_PaletteInRange ==
    variant = "enhanced" =>
        /\ colorPalette \in 0..3
        /\ pc = "swap" => uniforms.u_colorPalette \in 0..3

\* C2 witness: a frame is uploaded with palette 0 after SPACE wrapped it from 3.
C2_Witness ==
    /\ variant = "enhanced"
    /\ pc = "swap"
    /\ uniforms.u_colorPalette = 0
    /\ Len(paletteLog) = 4
    /\ paletteLog[4] = 3

\* C3: the 'r' event yields exactly offsetX = 0.0, offsetY = 0.0, distance = 4.5
\* from any camera state and leaves the palette index and the running flag alone.
C3_ResetExact ==
    Handled(KeyDownEvent("r")) =>
        /\ cameraOffsetX = 0
        /\ cameraOffsetY = 0
        /\ cameraDistance = FourAndAHalf
        /\ colorPalette = last.before.colorPalette
        /\ running = last.before.running

\* C3 witness: 'r' was handled in a state whose offset, distance and palette had
\* all been changed.
C3_Witness ==
    /\ Handled(KeyDownEvent("r"))
    /\ last.before.cameraOffsetY # 0
    /\ last.before.cameraDistance \notin {Two, FourAndAHalf, Ten}
    /\ last.before.colorPalette = 3
    /\ cameraOffsetY = 0
    /\ cameraDistance = FourAndAHalf

\* C4: four SPACE events, with any other events between them, return the palette
\* index to the value it had; one, two or three SPACE events never do.
C4_PaletteCycle ==
    variant = "enhanced" =>
        \A k \in 1..Len(paletteLog) :
            LET p == paletteLog[Len(paletteLog) - k + 1]
            IN  IF k = 4 THEN colorPalette = p ELSE colorPalette # p

\* C4 witness: four SPACE events were handled from palette 2, an arrow key was
\* handled last, and the palette is 2.
C4_Witness ==
    /\ Handled(KeyDownEvent("LEFT"))
    /\ Len(paletteLog) = 4
    /\ paletteLog[1] = 2
    /\ colorPalette = 2

\* C5: 100 '+' or '=' events in a row from distance 4.5 leave the distance at
\* exactly 2.0 and every further one keeps it there; 100 '-' events in a row from
\* distance 2.0 leave it at exactly 10.0 and every further one keeps it there.
C5_ClampsHeld ==
    /\ (zoomRun.dir = "in" /\ zoomRun.n >= ZoomRunLen) => cameraDistance = Two
    /\ (zoomRun.dir = "out" /\ zoomRun.n >= ZoomRunLen) => cameraDistance = Ten

\* C5 witness: more than 100 '-' events in a row were handled from distance 2.0,
\* the last of them at distance 10.0, and the distance is 10.0.
C5_Witness ==
    /\ zoomRun = [dir |-> "out", n |-> ZoomRunLen + 1]
    /\ Handled(KeyDownEvent("MINUS"))
    /\ last.before.cameraDistance = Ten
    /\ cameraDistance = Ten

\* The fields of the driver's state other than those named in the set own.
OthersKept(own) ==
    /\ "running" \in own \/ running = last.before.running
    /\ "colorPalette" \in own \/ colorPalette = last.before.colorPalette
    /\ "cameraOffsetX" \in own \/ cameraOffsetX = last.before.cameraOffsetX
    /\ "cameraOffsetY" \in own \/ cameraOffsetY = last.before.cameraOffsetY
    /\ "cameraDistance" \in own \/ cameraDistance = last.before.cameraDistance
    /\ "window" \in own \/ /\ windowWidth = last.before.windowWidth
                           /\ windowHeight = last.before.windowHeight
                           /\ viewport = last.before.viewport

\* C6: each event changes only its own field: Up/Down only offsetY, by +0.1/-0.1;
\* Left/Right only offsetX, by -0.1/+0.1; '+', '=' and '-' only the distance; SPACE
\* only the palette index; a resize only the window's stored size (and the
\* viewport set from it); an unmapped key or any other event nothing.
C6_OwnFieldOnly ==
    /\ Handled(KeyDownEvent("UP")) =>
          /\ OthersKept({"cameraOffsetY"})
          /\ SumOf(cameraOffsetY, last.before.cameraOffsetY, 1, 10)
    /\ Handled(KeyDownEvent("DOWN")) =>
          /\ OthersKept({"cameraOffsetY"})
          /\ SumOf(cameraOffsetY, last.before.cameraOffsetY, -1, 10)
    /\ Handled(KeyDownEvent("LEFT")) =>
          /\ OthersKept({"cameraOffsetX"})
          /\ SumOf(cameraOffsetX, last.before.cameraOffsetX, -1, 10)
    /\ Handled(KeyDownEvent("RIGHT")) =>
          /\ OthersKept({"cameraOffsetX"})
          /\ SumOf(cameraOffsetX, last.before.cameraOffsetX, 1, 10)
    /\ \A k \in {"PLUS", "EQUALS", "MINUS"} :
          Handled(KeyDownEvent(k)) => OthersKept({"cameraDistance"})
    /\ Handled(KeyDownEvent("SPACE")) => OthersKept({"colorPalette"})
    /\ \A sz \in ResizeSizes :
          Handled(ResizedEvent(sz[1], sz[2])) =>
              /\ OthersKept({"window"})
              /\ windowWidth = sz[1]
              /\ windowHeight = sz[2]
    /\ Handled(KeyDownEvent("a")) => OthersKept({})
    /\ Handled(OtherEvent) => OthersKept({})

\* C6 witness: Up was handled in a state with a negative offsetY, a changed
\* distance, palette and window size, and offsetY is back at 0.
C6_Witness ==
    /\ Handled(KeyDownEvent("UP"))
    /\ last.before.cameraOffsetY < 0
    /\ last.before.cameraDistance = Two
    /\ last.before.colorPalette = 1
    /\ last.before.windowWidth = 800
    /\ cameraOffsetY = 0

\* The events that end the render loop of the variant v.
StopEvents(v) ==
    IF v = "enhanced"
    THEN {QuitEvent, KeyDownEvent("ESCAPE"), KeyDownEvent("q")}
    ELSE {QuitEvent, KeyDownEvent("ESCAPE")}

C7_StateOk ==
    /\ last.event \in StopEvents(variant) => ~running
    /\ quitFrames.begun <= 1 /\ quitFrames.swapped <= quitFrames.begun
    /\ (~running /\ pc \in {"poll", "dispatch", "handled", "uniforms"}) =>
          quitFrames = [begun |-> 0, swapped |-> 0]
    /\ pc \in {"cleanup", "done"} =>
          ~running /\ quitFrames = [begun |-> 1, swapped |-> 1]
    /\ exitStatus = (IF pc = "done" THEN 0 ELSE -1)

\* C7, as amended: a quit or ESC event in either variant, and a 'q' key in the
\* enhanced variant, sets running to false; nothing sets it back to true; the frame
\* in which the event was polled is rendered and swapped in full, no further frame
\* is begun, and main then cleans up and returns 0.
C7_QuitStopsLoop ==
    /\ []C7_StateOk
    /\ [][~running => ~running']_vars
    /\ (~running) ~> (pc = "done" /\ exitStatus = 0)

\* C7 witness: the simple variant has returned after one last frame.
C7_Witness ==
    /\ variant = "simple"
    /\ pc = "done"
    /\ exitStatus = 0
    /\ quitFrames = [begun |-> 1, swapped |-> 1]

\* C7 as stated: in both variants a quit, ESC or 'q' event sets running to false.
C7_Original ==
    last.event \in {QuitEvent, KeyDownEvent("ESCAPE"), KeyDownEvent("q")} => ~running

C8_FrameOk ==
    variant = "enhanced" =>
        /\ pc \in {"upload", "swap"} =>
              /\ camera.camX = Sway(camera.time, cameraOffsetX)
              /\ camera.camY = Sway(camera.time, cameraOffsetY)
              /\ camera.camZ = Sway(camera.time, cameraDistance)
        /\ pc = "swap" =>
              /\ uniforms.u_time = camera.time
              /\ uniforms.u_rotation = camera.time
              /\ uniforms.u_camPos = <<Sway(camera.time, cameraOffsetX),
                                       Sway(camera.time, cameraOffsetY),
                                       Sway(camera.time, cameraDistance)>>
              /\ uniforms.u_colorPalette = colorPalette
              /\ uniforms.u_resolution = <<windowWidth, windowHeight>>

\* C8: offsetX, offsetY, distance and palette index change only while an event is
\* handled, never between the computation of a frame's uniforms and its swap, and
\* the uniforms of a frame are those of the state the events before it left.
C8_MutatedBetweenFrames ==
    /\ []C8_FrameOk
    /\ [][<<cameraOffsetX, cameraOffsetY, cameraDistance, colorPalette>>
              # <<cameraOffsetX', cameraOffsetY', cameraDistance', colorPalette'>>
          => (pc = "dispatch" /\ camera = NoCamera /\ uniforms = NoUniforms)]_vars

\* C8 witness: a frame is about to be swapped whose uniforms carry a changed
\* offset, distance, palette and resolution.
C8_Witness ==
    /\ variant = "enhanced"
    /\ pc = "swap"
    /\ uniforms.u_camPos[1].base < 0
    /\ uniforms.u_camPos[3].base = Two
    /\ uniforms.u_colorPalette = 2
    /\ uniforms.u_resolution = <<800, 600>>

C9_StateOk ==
    LET budget == IF variant = "simple" THEN 256 ELSE 200
        far == IF variant = "simple" THEN 20 * DistUnit ELSE 50 * DistUnit
    IN  /\ evals <= budget
        /\ evals = i + (IF hit THEN 1 ELSE 0)
        /\ t > far => (marchPc # "loop" /\ ~hit)
        /\ (marchPc = "done" /\ t > far) => result = -DistUnit

\* C9: whatever the distance samples are, rayMarch evaluates the distance
\* estimator at most 256 times (simple) / 200 times (enhanced) and returns; once t
\* exceeds 20 (simple) / 50 (enhanced) no further sample is taken and the return
\* is the miss.
C9_MarchTerminates == []C9_StateOk /\ <>(marchPc = "done")

\* C9 witness: the enhanced marcher returned the miss after 200 samples none of
\* which was below the threshold or pushed t past 50.
C9_Witness ==
    /\ variant = "enhanced"
    /\ marchPc = "done"
    /\ evals = 200
    /\ ~hit
    /\ t <= 50 * DistUnit
    /\ result = -DistUnit

\* C10, as amended: the enhanced marcher returns -1 or, on a hit, the distance t
\* marched so far, 0 <= t <= 50; the simple marcher returns -1 or, on a hit, the
\* sample itself, 0 <= dist < 0.001, and reports t, 0 <= t <= 20, in totalDist.
C10_ReturnValue ==
    marchPc = "done" =>
        IF hit
        THEN IF variant = "enhanced"
             THEN result = t /\ 0 <= t /\ t <= 50 * DistUnit
             ELSE /\ 0 <= result /\ 1000 * result < DistUnit
                  /\ totalDist = t /\ 0 <= t /\ t <= 20 * DistUnit
        ELSE result = -DistUnit

\* C10 witness: the simple marcher returned a hit after marching a distance.
C10_Witness ==
    /\ variant = "simple"
    /\ marchPc = "done"
    /\ hit
    /\ t > 0
    /\ totalDist = t
    /\ result < t

\* C10 as stated: in both variants the return is -1 or, on a hit, the distance t.
C10_Original ==
    marchPc = "done" =>
        \/ result = -DistUnit
        \/ /\ hit
           /\ result = t
           /\ 0 <= t
           /\ t <= (IF variant = "simple" THEN 20 * DistUnit ELSE 50 * DistUnit)

\* A compilation or the link has failed and createShaderProgram has returned.
StartupFailed ==
    /\ pc \notin {"compileVertex", "compileFragment", "link"}
    /\ ~(compileStatus.vertex /\ compileStatus.fragment /\ linkStatus)

\* C11: in both variants, when a compilation or the link fails at startup, a
\* diagnostic has been printed, the render loop is never entered, and the process
\* exits with a status other than 0.
C11_FailureIsFatal ==
    StartupFailed =>
        /\ diagnostics # <<>>
        /\ pc \in {"created", "done"}
        /\ pc = "done" => exitStatus # 0

\* C12: the simple distance estimator returns a value >= 0 for every point.
C12_NonNegative ==
    (variant = "simple" /\ sdfPc = "done") => ~FlLess(sdfResult, FlZero)

\* The simple estimator has run its 12 iterations for a point with a negative
\* coordinate and has returned a distance above 0.
C12_Witness ==
    /\ variant = "simple"
    /\ sdfPc = "done"
    /\ FlLess(sdfP.x, FlZero)
    /\ FlLess(FlZero, sdfResult)
    /\ n = SimpleIterations

\* C15: an activation of the distance estimator with the argument of the first
\* activation returns what the first returned, distance and (enhanced) orbit trap,
\* whatever activations, frames and events lie between the two.
C15_SameResult ==
    (sdfPc = "done" /\ memo.valid /\ memo.p = sdfP) =>
        /\ sdfResult = memo.result
        /\ variant = "enhanced" => orbitTrap = memo.trap

\* The third activation has the argument of the first; an activation with another
\* argument, a palette event and a swapped frame lie between.
C15_Witness ==
    /\ variant = "enhanced"
    /\ sdfPc = "done"
    /\ calls = 3
    /\ memo.valid /\ memo.p = sdfP
    /\ between.call /\ between.frame /\ between.event
    /\ colorPalette = 1

\* a is not greater than b.
FlLeq(a, b) == ~FlLess(b, a)

\* C17: in the enhanced estimator, the call sets each component of orbitTrap to
\* 1e10; an iteration leaves each component or replaces it by the smaller new
\* sample, so none increases; the point, dr and the returned distance are
\* computed from the point and dr alone.
C17_TrapStep ==
    variant = "enhanced" =>
        /\ (sdfPc # "loop" /\ sdfPc' = "loop") => orbitTrap' = Vec3(Huge, Huge, Huge)
        /\ (sdfPc = "loop" /\ n' = n + 1) =>
              /\ FlLeq(orbitTrap'.x, orbitTrap.x)
              /\ FlLeq(orbitTrap'.y, orbitTrap.y)
              /\ FlLeq(orbitTrap'.z, orbitTrap.z)
              /\ orbitTrap'.x \in {orbitTrap.x, Length(z')}
              /\ orbitTrap'.y \in
                    {orbitTrap.y, FlAdd(FlAdd(FlAbs(z'.x), FlAbs(z'.y)), FlAbs(z'.z))}
              /\ orbitTrap'.z \in {orbitTrap.z, Dot(z', z')}
              /\ z' = ScaleTranslate(Fold(z))
              /\ dr' = FlMul(dr, Scale)
        /\ (sdfPc = "loop" /\ sdfPc' = "done") =>
              sdfResult' = FlDiv(FlMul(FlLit(1, 2), Length(z)), dr)

C17_TrapMinimum == [][C17_TrapStep]_vars

\* The second activation has run its 14 iterations from a trap the first one had
\* left below 1e10, and a component has stayed above a later sample's value.
C17_Witness ==
    /\ variant = "enhanced"
    /\ sdfPc = "done"
    /\ calls = 2
    /\ n = EnhancedIterations
    /\ FlLess(orbitTrap.x, Huge)
    /\ FlLess(orbitTrap.x, Length(z))

\* The ray of C13: from (0, 0, 100) along +z, away from the fractal.
AwayRay == [ro |-> Point(0, 0, 10000), rd |-> Point(0, 0, 100)]

\* rayMarch has returned from marching the given ray.
Marched(ray) == rayPc = "done" /\ ro = ray.ro /\ rd = ray.rd

\* C13: in both variants, marching the ray that starts at (0, 0, 100) and
\* points along (0, 0, 1) ends in the statement after the loop and returns the
\* miss sentinel -1.
C13_AwayRayMisses == Marched(AwayRay) => ~rayHit /\ rayResult = FlNeg(One)

\* The enhanced marcher has returned from the ray of C13, after more than one
\* sample.
C13_Witness == Marched(AwayRay) /\ variant = "enhanced" /\ rayI > 1

\* The ray of C14: from (0, 0, 4.5) along -z, at the origin.
CameraRay == [ro |-> Point(0, 0, 450), rd |-> Point(0, 0, -100)]

\* C14: in the simple variant, marching the ray that starts at (0, 0, 4.5) and
\* points along (0, 0, -1) returns from inside the loop with a value that is
\* not the sentinel -1, and the hit distance it reports in totalDist lies
\* strictly between 0 and 4.5.
C14_CameraRayHits ==
    variant = "simple" /\ Marched(CameraRay) =>
        /\ rayHit
        /\ rayResult # FlNeg(One)
        /\ FlLess(FlZero, rayTotalDist)
        /\ FlLess(rayTotalDist, FlLit(45, 10))

\* The simple marcher has returned from the ray of C14 with a hit, after
\* more than one sample.
C14_Witness == variant = "simple" /\ Marched(CameraRay) /\ rayHit /\ rayI > 1

\* C18: calcShadow calls map() at most 32 times; a sample below the hit
\* threshold makes it return 0 at once; once t exceeds maxt it takes no
\* further sample; and the value it returns lies in [0, 1].
C18_ShadowBounded ==
    /\ shadowSamples <= 32
    /\ (shadowSamples > 0 /\ FlLess(shadowH, FlLit(1, 10000)) =>
            shadowPc = "done" /\ shadowResult = FlZero)
    /\ (shadowPc # "idle" /\ FlLess(FlInt(5), shadowT) => shadowPc \in {"exit", "done"})
    /\ (shadowPc = "done" => FlLeq(FlZero, shadowResult) /\ FlLeq(shadowResult, One))

\* calcShadow has returned a partial shadow after all 32 samples.
C18_Witness ==
    /\ shadowPc = "done"
    /\ shadowSamples = 32
    /\ FlLess(FlZero, shadowResult)
    /\ FlLess(shadowResult, One)

\* C19: in the enhanced variant, whenever rayMarch has returned from inside its
\* loop, because a sample fell below the hit threshold (also when that was the
\* first sample, where t = 0), main takes the surface-lighting branch and
\* traceReflection the reflected-surface branch, never the sky branch.
C19_HitIsTreatedAsHit ==
    /\ (mainBranch # "none" /\ mainHit => mainBranch = "surface")
    /\ (reflBranch # "none" /\ reflHit => reflBranch = "surface")

\* C16 as stated: for every palette and every hue t, getColorPalette(t, index)
\* equals getColorPalette(t + 1.0, index).
C16_Original == palettePc = "done" => color = colorShifted

\* |a - b| <= 2^-15
Close(a, b) == FlLeq(FlAbs(FlSub(a, b)), FlScale(One, -15))

\* C16, amended: for every palette and every hue t with |t| <= 16, each
\* component of getColorPalette(t + 1.0, index) is within 2^-15 of the same
\* component of getColorPalette(t, index).
C16_PeriodicWithinRounding ==
    palettePc = "done" /\ FlLeq(FlAbs(hue), FlInt(16)) =>
        /\ Close(color.x, colorShifted.x)
        /\ Close(color.y, colorShifted.y)
        /\ Close(color.z, colorShifted.z)

\* Both colours are computed for a hue of magnitude at most 16, with the same
\* cosine, and differ in every component.
C16_Witness ==
    /\ palettePc = "done"
    /\ FlLeq(FlAbs(hue), FlInt(16))
    /\ color = GetColorPalette(hue, paletteIndex, 0)
    /\ colorShifted = GetColorPalette(FlAdd(hue, One), paletteIndex, 0)
    /\ color.x # colorShifted.x
    /\ color.y # colorShifted.y
    /\ color.z # colorShifted.z

====
